---- MODULE Spec2Model ----
(***************************************************************************)
(* Model of the YouTube fetcher of backend/app/services/youtube_client.py  *)
(* and of analyze_link of backend/app/services/analyzer.py.                *)
(*                                                                         *)
(* A remote operation is a script: the sequence of outcomes of its         *)
(* successive executions.  An outcome is what request.execute() under      *)
(* execute_with_timeout does: it returns a response, or raises             *)
(* TimeoutError, HttpError (with a status and a content), or any other     *)
(* Exception (with a message, modelled as the set of the markers of        *)
(* _retry_api_call that the lower-cased message contains).                 *)
(***************************************************************************)
EXTENDS Integers, Sequences, FiniteSets, TLC

VARIABLES
    config,     \* FetchConfig of the fetcher
    script,     \* the outcomes of the successive executions of the wrapped operation
    rs,         \* the state of one run of _retry_api_call
    video_details,  \* get_channel_data: the records _get_video_details returned
    agg,        \* get_channel_data: the state of the aggregation of video_details
    cscripts,   \* the script of commentThreads.list for each video of a comment fetch
    pool,       \* _get_videos_with_comments_concurrent: the executor, its futures, the result
    remote,     \* the state of the remote API: the outcome of each endpoint
    fetcher,    \* a YouTubeFetcher instance: its _cache
    hist,       \* the resolutions made on the fetcher since its cache was last empty
    req,        \* one call of analyze_link: where it is, what it has got, how it ended
    pl,         \* one call of _get_video_ids_from_playlist: the playlist, the loop, the ids
    sock        \* the process: the socket default timeout, the fetchers building a client

retryVars == <<script, rs>>

aggVars == <<video_details, agg>>

poolVars == <<cscripts, pool>>

resolveVars == <<remote, fetcher, hist>>

otherVars == <<pl, sock>>

vars == <<config, script, rs, video_details, agg, cscripts, pool, remote, fetcher, hist, req, pl, sock>>

(***************************************************************************)
(* Bounds                                                                  *)
(***************************************************************************)
MaxAttempts == 3

MaxVideos == 3

MaxPopular == 2

MaxLeastPopular == 2

AggAttempts == 2

PoolVideos == 2

MaxWorkers == 2

(***************************************************************************)
(* Program constants                                                       *)
(***************************************************************************)
retry_delay == 2

RateLimitStatus == 429

ServerErrorStatuses == {500, 502, 503, 504}

\* maxResults=min(max_results, 50)
PageCap == 50

ConnectionMarkers == {"ssl", "connection", "timeout", "record layer", "read operation timed out"}

\* F applied to a value that is computed once
With(value, F(_)) == CHOOSE y \in {F(v) : v \in {value}} : TRUE

(***************************************************************************)
(* Outcomes of one execution of a remote operation                         *)
(***************************************************************************)
NoValue == <<>>

OkOutcome(v) == [type |-> "ok", status |-> 200, content |-> "", msg |-> {}, value |-> v]

TimeoutOutcome == [type |-> "TimeoutError", status |-> 0, content |-> "", msg |-> {}, value |-> NoValue]

HttpErrorOutcome(s, c) == [type |-> "HttpError", status |-> s, content |-> c, msg |-> {}, value |-> NoValue]

ExceptionOutcome(m) == [type |-> "Exception", status |-> 0, content |-> "", msg |-> m, value |-> NoValue]

NoExc == [type |-> "none", status |-> 0, content |-> "", msg |-> {}, value |-> NoValue]

Outcomes ==
    {OkOutcome(<<"i1">>), OkOutcome(<<>>), TimeoutOutcome,
     HttpErrorOutcome(429, ""), HttpErrorOutcome(500, ""), HttpErrorOutcome(503, ""),
     HttpErrorOutcome(501, ""), HttpErrorOutcome(404, ""),
     HttpErrorOutcome(403, "commentsDisabled"),
     ExceptionOutcome({"ssl"}), ExceptionOutcome({"connection"}), ExceptionOutcome({})}

(***************************************************************************)
(* _retry_api_call                                                         *)
(***************************************************************************)
Pow2(n) == IF n = 0 THEN 1 ELSE IF n = 1 THEN 2 ELSE IF n = 2 THEN 4 ELSE IF n = 3 THEN 8 ELSE 16

\* wait_time = self.config.retry_delay * (2 ** attempt)
BackoffDelay(attempt) == retry_delay * Pow2(attempt)

\* raise YouTubeFetcherError(...): inside an except block the exception being
\* handled is chained to it (cause), outside of one nothing is
YouTubeFetcherError(cause) ==
    [type |-> "YouTubeFetcherError", status |-> 0, content |-> "", msg |-> {}, value |-> NoValue,
     cause |-> cause]

\* a bare `raise`: the exception of the operation itself
Raw(e) == [type |-> e.type, status |-> e.status, content |-> e.content, msg |-> e.msg,
           value |-> NoValue, cause |-> NoExc]

NoRaise == Raw(NoExc)

\* the state of a run at its entry.  The client handles are numbered by the
\* rebuilds: self.youtube is handle number `rebuilds`, and func, an attribute
\* of the handle of the call site, is bound to handle 0 for the whole run
RetryInit ==
    [pc |-> "try", attempt |-> 0, calls |-> 0, delays |-> <<>>, rebuilds |-> 0,
     value |-> NoValue, exc |-> NoRaise, func |-> 0, used |-> <<>>]

\* range(self.config.retry_attempts): the next iteration, or the raise after the loop
Continue(cfg, r) ==
    IF r.attempt + 1 < cfg.retry_attempts
    THEN [r EXCEPT !.attempt = r.attempt + 1]
    ELSE [r EXCEPT !.pc = "raised", !.exc = YouTubeFetcherError(NoExc)]

Sleep(r, d) == [r EXCEPT !.delays = Append(r.delays, d)]

\* self.youtube = self._build_youtube_client(), which may raise: then the handle is kept
Rebuild(r, rebuildOk) == IF rebuildOk THEN [r EXCEPT !.rebuilds = r.rebuilds + 1] ELSE r

\* request = func(*args, **kwargs); request.execute(): the request is made
\* through the handle of func, while self.youtube is the handle of the last rebuild
Called(r) ==
    [r EXCEPT !.calls = r.calls + 1,
              !.used = Append(r.used, [through |-> r.func, youtube |-> r.rebuilds])]

OnSuccess(cfg, r, o) == [r EXCEPT !.pc = "returned", !.value = o.value]

OnTimeout(cfg, r, o, rebuildOk) ==
    IF r.attempt < cfg.retry_attempts - 1
    THEN Continue(cfg, Rebuild(Sleep(r, BackoffDelay(r.attempt)), rebuildOk))
    ELSE [r EXCEPT !.pc = "raised", !.exc = YouTubeFetcherError(o)]

OnHttpError_NoServerErrorDelay(cfg, r, o) ==
    IF o.status = RateLimitStatus
    THEN Continue(cfg, Sleep(r, BackoffDelay(r.attempt)))
    ELSE IF o.status \in ServerErrorStatuses /\ r.attempt < cfg.retry_attempts - 1
         THEN Continue(cfg, r)
         ELSE [r EXCEPT !.pc = "raised", !.exc = Raw(o)]

OnHttpError(cfg, r, o) ==
    IF o.status = RateLimitStatus
    THEN Continue(cfg, Sleep(r, BackoffDelay(r.attempt)))
    ELSE IF o.status \in ServerErrorStatuses /\ r.attempt < cfg.retry_attempts - 1
         THEN Continue(cfg, Sleep(r, retry_delay))
         ELSE [r EXCEPT !.pc = "raised", !.exc = Raw(o)]

IsConnectionError(o) == o.msg \cap ConnectionMarkers # {}

OnException(cfg, r, o, rebuildOk) ==
    IF IsConnectionError(o)
    THEN IF r.attempt < cfg.retry_attempts - 1
         THEN Continue(cfg, Rebuild(Sleep(r, BackoffDelay(r.attempt)), rebuildOk))
         ELSE [r EXCEPT !.pc = "raised", !.exc = YouTubeFetcherError(o)]
    ELSE IF r.attempt < cfg.retry_attempts - 1
         THEN Continue(cfg, Sleep(r, retry_delay))
         ELSE [r EXCEPT !.pc = "raised", !.exc = Raw(o)]

\* one iteration of the loop: the call and the handler of what it raised
RetryAttempt(cfg, r, o, rebuildOk) ==
    CASE o.type = "ok" -> OnSuccess(cfg, Called(r), o)
      [] o.type = "TimeoutError" -> OnTimeout(cfg, Called(r), o, rebuildOk)
      [] o.type = "HttpError" -> OnHttpError(cfg, Called(r), o)
      [] OTHER -> OnException(cfg, Called(r), o, rebuildOk)

\* the outcome of the next execution of an operation that was executed n times
NextOutcome(s, n) == s[n + 1]

(***************************************************************************)
(* Specification of one run of _retry_api_call on a scripted operation     *)
(***************************************************************************)
\* FetchConfig(): the defaults of the dataclass
DefaultConfig ==
    [max_videos |-> 50, max_comments_per_video |-> 100, popular_videos_count |-> 5,
     least_popular_videos_count |-> 5, retry_attempts |-> 5, enable_comments |-> TRUE,
     enable_concurrent_fetching |-> TRUE, max_workers |-> 5]

AggIdle == [pc |-> "idle"]

PoolIdle == [pc |-> "idle"]

\* the parts of the state a specification does not use
NoRetry == script = <<>> /\ rs = [pc |-> "idle"]

NoAggregate == video_details = <<>> /\ agg = AggIdle

NoComments == cscripts = <<>> /\ pool = PoolIdle

NoResolve == remote = [test |-> NoExc] /\ fetcher = [cache |-> <<>>] /\ hist = [pc |-> "idle"]

NoRequest == req = [pc |-> "idle"]

NoOther == pl = [pc |-> "idle"] /\ sock = [pc |-> "idle"]

RetryConfigs == {[DefaultConfig EXCEPT !.retry_attempts = n] : n \in 1..MaxAttempts}

Scripts(n) == [1..n -> Outcomes]

InitRetry ==
    /\ config \in RetryConfigs
    /\ script \in Scripts(config.retry_attempts)
    /\ rs = RetryInit
    /\ NoAggregate
    /\ NoComments
    /\ NoResolve
    /\ NoRequest
    /\ NoOther

AttemptSucceeds ==
    /\ rs.pc = "try"
    /\ NextOutcome(script, rs.calls).type = "ok"
    /\ rs' = RetryAttempt(config, rs, NextOutcome(script, rs.calls), TRUE)
    /\ UNCHANGED <<config, script, aggVars, poolVars, resolveVars, req, otherVars>>

AttemptTimesOut ==
    /\ rs.pc = "try"
    /\ NextOutcome(script, rs.calls).type = "TimeoutError"
    /\ \E rebuildOk \in BOOLEAN :
          rs' = RetryAttempt(config, rs, NextOutcome(script, rs.calls), rebuildOk)
    /\ UNCHANGED <<config, script, aggVars, poolVars, resolveVars, req, otherVars>>

AttemptHttpError ==
    /\ rs.pc = "try"
    /\ NextOutcome(script, rs.calls).type = "HttpError"
    /\ rs' = RetryAttempt(config, rs, NextOutcome(script, rs.calls), TRUE)
    /\ UNCHANGED <<config, script, aggVars, poolVars, resolveVars, req, otherVars>>

AttemptException ==
    /\ rs.pc = "try"
    /\ NextOutcome(script, rs.calls).type = "Exception"
    /\ \E rebuildOk \in BOOLEAN :
          rs' = RetryAttempt(config, rs, NextOutcome(script, rs.calls), rebuildOk)
    /\ UNCHANGED <<config, script, aggVars, poolVars, resolveVars, req, otherVars>>

NextRetry == AttemptSucceeds \/ AttemptTimesOut \/ AttemptHttpError \/ AttemptException

SpecRetry == InitRetry /\ [][NextRetry]_vars

(***************************************************************************)
(* Claims about _retry_api_call                                            *)
(***************************************************************************)
\* the failure classes the specification calls retryable
IsRetryableFailure(o) ==
    \/ o.type = "TimeoutError"
    \/ o.type = "Exception" /\ IsConnectionError(o)
    \/ o.type = "HttpError" /\ (o.status = 429 \/ o.status \in 500..599)

\* the same, the 5xx class being the statuses the wrapper treats as server errors
IsRetriedFailure(o) ==
    \/ o.type = "TimeoutError"
    \/ o.type = "Exception" /\ IsConnectionError(o)
    \/ o.type = "HttpError" /\ (o.status = 429 \/ o.status \in {500, 502, 503, 504})

AlwaysFailsRetryably ==
    \A i \in 1..config.retry_attempts : IsRetryableFailure(script[i])

\* C2: when the operation fails retryably on every attempt, the wrapper makes
\* exactly retry_attempts calls and raises YouTubeFetcherError carrying the
\* last underlying failure, never the failure itself.
C2_ExhaustedRaisesDistinguished ==
    (AlwaysFailsRetryably /\ rs.pc # "try") =>
        /\ rs.pc = "raised"
        /\ rs.calls = config.retry_attempts
        /\ rs.exc.type = "YouTubeFetcherError"
        /\ rs.exc.cause = script[config.retry_attempts]

\* the operation fails k times, each time in a class of P, and then succeeds
FailsThenSucceeds(k, P(_)) ==
    /\ k < config.retry_attempts
    /\ \A i \in 1..k : P(script[i])
    /\ script[k + 1].type = "ok"

IsOtherError(o) == o.type # "ok" /\ ~IsRetryableFailure(o)

\* C16: an error that is not a 429, a 5xx, a timeout or a connection/TLS
\* failure is never retried: the call that met it is the last one, no delay
\* follows it and the wrapper raises that error.
C16_OtherErrorsAreNotRetried ==
    \A i \in 1..rs.calls :
        IsOtherError(script[i]) =>
            /\ rs.pc = "raised"
            /\ rs.calls = i
            /\ Len(rs.delays) < i
            /\ rs.exc = Raw(script[i])

\* C17: the delay between failed attempt number i (from 0) and the retry
\* after it is retry_delay * 2^i, whichever retryable class the failures
\* are of.
C17_DelayIsExponential ==
    \A i \in 1..Len(rs.delays) :
        (\A j \in 1..i : IsRetryableFailure(script[j])) => rs.delays[i] = BackoffDelay(i - 1)

\* C18: after a timeout or a connection/TLS failure the client handle is
\* rebuilt, and the attempts that follow are issued through the rebuilt
\* handle: every call goes through the handle that self.youtube is at
\* that moment.
C18_RetryUsesRebuiltHandle ==
    \A i \in 1..Len(rs.used) : rs.used[i].through = rs.used[i].youtube

(***************************************************************************)
(* Specification of execute_with_timeout inside the loop of                *)
(* _retry_api_call.  The call runs in the worker of an executor of its own *)
(* while the caller waits for its result for at most the timeout; leaving  *)
(* the with block shuts the executor down, which joins the worker.  The    *)
(* script says of each execution how it ends: in time, late (after the     *)
(* timeout) or never, and with which outcome.                              *)
(***************************************************************************)
CallBehaviours ==
    {[how |-> h, outcome |-> o] :
        h \in {"in time", "late"},
        o \in {OkOutcome(<<"i1">>), HttpErrorOutcome(500, ""), ExceptionOutcome({"connection"})}}
    \cup {[how |-> "never", outcome |-> NoExc]}

InitTimeout ==
    /\ config \in RetryConfigs
    /\ script \in [1..config.retry_attempts -> CallBehaviours]
    /\ rs = [inflight |-> "none", timed_out |-> FALSE] @@ RetryInit
    /\ NoAggregate
    /\ NoComments
    /\ NoResolve
    /\ NoRequest
    /\ NoOther

\* executor.submit(func): the worker starts the call, the caller goes on to future.result
SubmitCall ==
    /\ rs.pc = "try"
    /\ rs' = [rs EXCEPT !.pc = "result", !.inflight = "running", !.timed_out = FALSE]
    /\ UNCHANGED <<config, script, aggVars, poolVars, resolveVars, req, otherVars>>

\* request.execute() ends in the worker, with a value or an exception
CallCompletes ==
    /\ rs.inflight = "running"
    /\ NextOutcome(script, rs.calls).how # "never"
    /\ NextOutcome(script, rs.calls).how = "late" => rs.timed_out
    /\ rs' = [rs EXCEPT !.inflight = "finished"]
    /\ UNCHANGED <<config, script, aggVars, poolVars, resolveVars, req, otherVars>>

\* future.result(timeout) raises: cancel() does nothing to a running future,
\* TimeoutError is raised inside the with block, whose exit comes next
ResultTimesOut ==
    /\ rs.pc = "result"
    /\ rs.inflight = "running"
    /\ NextOutcome(script, rs.calls).how \in {"late", "never"}
    /\ rs' = [rs EXCEPT !.pc = "shutdown", !.timed_out = TRUE]
    /\ UNCHANGED <<config, script, aggVars, poolVars, resolveVars, req, otherVars>>

\* future.result(timeout) gives what the call ended with
ResultReady ==
    /\ rs.pc = "result"
    /\ rs.inflight = "finished"
    /\ rs' = [rs EXCEPT !.pc = "shutdown"]
    /\ UNCHANGED <<config, script, aggVars, poolVars, resolveVars, req, otherVars>>

\* the exit of the with block, shutdown(wait=True), returns when the worker
\* has ended; then the loop handles what execute_with_timeout returned or raised
ExecutorShutdown ==
    /\ rs.pc = "shutdown"
    /\ rs.inflight = "finished"
    /\ \E rebuildOk \in BOOLEAN :
          rs' = RetryAttempt(config, [rs EXCEPT !.pc = "try", !.inflight = "none"],
                             IF rs.timed_out THEN TimeoutOutcome
                             ELSE NextOutcome(script, rs.calls).outcome,
                             rebuildOk)
    /\ UNCHANGED <<config, script, aggVars, poolVars, resolveVars, req, otherVars>>

NextTimeout == SubmitCall \/ CallCompletes \/ ResultTimesOut \/ ResultReady \/ ExecutorShutdown

SpecTimeout == InitTimeout /\ [][NextTimeout]_vars

\* C15: a call that does not return in time is abandoned when the timeout
\* expires: the wrapper is never found waiting for the end of a call whose
\* timeout has expired (which is what lets it end, after retry_attempts
\* attempts, in the retries-exhausted failure when the remote never answers).
C15_TimedOutCallIsAbandoned ==
    ~(rs.pc = "shutdown" /\ rs.timed_out /\ rs.inflight = "running")

(***************************************************************************)
(* Comment fetching and the aggregation of get_channel_data                *)
(***************************************************************************)
\* _retry_api_call run to its end on an operation with script s
RECURSIVE RetryRun(_, _, _)
RetryRun(cfg, r, s) ==
    IF r.pc # "try" THEN r
    ELSE With(RetryAttempt(cfg, r, NextOutcome(s, r.calls), TRUE), LAMBDA n : RetryRun(cfg, n, s))

\* the raise of get_channel_data and get_video_data: YouTubeFetcherError is
\* re-raised, any other exception is wrapped into one
Reraise(e) == IF e.type = "YouTubeFetcherError" THEN e ELSE YouTubeFetcherError(e)

\* the except clauses of _get_comments_for_video on the end r of the wrapper's run
CommentsResult(r) ==
    IF r.pc = "returned"
    THEN [raised |-> FALSE, comments |-> r.value, exc |-> NoRaise, calls |-> r.calls]
    ELSE IF r.exc.type = "HttpError"
         THEN [raised |-> FALSE, comments |-> <<>>, exc |-> NoRaise, calls |-> r.calls]
         ELSE [raised |-> TRUE, comments |-> <<>>, exc |-> r.exc, calls |-> r.calls]

CommentsSkipped == [raised |-> FALSE, comments |-> <<>>, exc |-> NoRaise, calls |-> 0]

CommentsForVideo_HttpErrorRaised(cfg, s) ==
    IF ~cfg.enable_comments
    THEN CommentsSkipped
    ELSE With(RetryRun(cfg, RetryInit, s), LAMBDA r :
              IF r.pc = "returned"
              THEN [raised |-> FALSE, comments |-> r.value, exc |-> NoRaise, calls |-> r.calls]
              ELSE [raised |-> TRUE, comments |-> <<>>, exc |-> r.exc, calls |-> r.calls])

\* _get_comments_for_video: the comments, or the exception it lets through
CommentsForVideo(cfg, s) ==
    IF ~cfg.enable_comments THEN CommentsSkipped
    ELSE With(RetryRun(cfg, RetryInit, s), LAMBDA r : CommentsResult(r))

\* _get_videos_with_comments_sequential from the i-th video on
RECURSIVE SequentialFetch(_, _, _, _, _)
SequentialFetch(cfg, videos, scripts, i, results) ==
    IF i > Len(videos) THEN [kind |-> "return", results |-> results, exc |-> NoRaise]
    ELSE With(CommentsForVideo(cfg, scripts[i]), LAMBDA c :
              IF c.raised THEN [kind |-> "raise", results |-> <<>>, exc |-> c.exc]
              ELSE SequentialFetch(cfg, videos, scripts, i + 1,
                                   Append(results, [video |-> videos[i], comments |-> c.comments])))

\* a video record: statistics is absent, or has no viewCount, or has the
\* viewCount as the API gives it, a string of decimal digits
NoStatistics == [present |-> FALSE, has_viewCount |-> FALSE, viewCount |-> <<>>]

NoViewCount == [present |-> TRUE, has_viewCount |-> FALSE, viewCount |-> <<>>]

Statistics(digits) == [present |-> TRUE, has_viewCount |-> TRUE, viewCount |-> digits]

RECURSIVE ParseInt(_)
ParseInt(digits) ==
    IF digits = <<>> THEN 0
    ELSE 10 * ParseInt(SubSeq(digits, 1, Len(digits) - 1)) + digits[Len(digits)]

\* int(x.get('statistics', {}).get('viewCount', 0))
ViewCountKey(v) ==
    IF ~v.statistics.present THEN 0
    ELSE IF ~v.statistics.has_viewCount THEN 0
    ELSE ParseInt(v.statistics.viewCount)

\* list.sort(key=..., reverse=True) is stable: a record goes after every
\* record whose key is not smaller
NotSmallerPrefix(sorted, x) ==
    Cardinality({i \in 1..Len(sorted) : ViewCountKey(sorted[i]) >= ViewCountKey(x)})

InsertByViews_BeforeEqual(sorted, x) ==
    LET n == Cardinality({i \in 1..Len(sorted) : ViewCountKey(sorted[i]) > ViewCountKey(x)}) IN
    SubSeq(sorted, 1, n) \o <<x>> \o SubSeq(sorted, n + 1, Len(sorted))

InsertByViews(sorted, x) ==
    LET n == NotSmallerPrefix(sorted, x) IN
    SubSeq(sorted, 1, n) \o <<x>> \o SubSeq(sorted, n + 1, Len(sorted))

RECURSIVE SortByViews(_)
SortByViews(details) ==
    IF details = <<>> THEN <<>>
    ELSE InsertByViews(SortByViews(SubSeq(details, 1, Len(details) - 1)), details[Len(details)])

Min(a, b) == IF a < b THEN a ELSE b

\* list[:n] for n >= 0
TakeFirst(list, n) == SubSeq(list, 1, Min(n, Len(list)))

\* list[-n:] for n >= 0: -0 is 0, the whole list
TakeLast(list, n) == IF n = 0 THEN list ELSE SubSeq(list, Len(list) - Min(n, Len(list)) + 1, Len(list))

MostPopular(cfg, sorted) == TakeFirst(sorted, Min(cfg.popular_videos_count, Len(sorted)))

LeastPopular(cfg, sorted) ==
    IF Len(sorted) > Min(cfg.popular_videos_count, Len(sorted))
    THEN TakeLast(sorted, Min(cfg.least_popular_videos_count, Len(sorted)))
    ELSE <<>>

(***************************************************************************)
(* Specification of get_channel_data from the fetched video details on:    *)
(* the sort, the two buckets, the comments of each selected video (in the  *)
(* order of the bucket, most popular first), the result                    *)
(***************************************************************************)
ViewValues == {NoStatistics, NoViewCount, Statistics(<<0>>), Statistics(<<2>>), Statistics(<<1, 0>>)}

\* the view counts of the runs that also fetch comments
FewViewValues == {NoStatistics, Statistics(<<2>>), Statistics(<<1, 0>>)}

\* the record of the i-th video of the playlist
VideoRecord(i, views) == [id |-> i, statistics |-> views]

VideoLists ==
    UNION {{[i \in 1..n |-> VideoRecord(i, f[i])] : f \in [1..n -> ViewValues]} : n \in 0..MaxVideos}

AggConfigs ==
    {[DefaultConfig EXCEPT !.popular_videos_count = p, !.least_popular_videos_count = l,
                           !.enable_comments = c, !.retry_attempts = AggAttempts] :
        p \in 0..MaxPopular, l \in 0..MaxLeastPopular, c \in BOOLEAN}

CommentOutcomes ==
    {OkOutcome(<<"i1">>), TimeoutOutcome, HttpErrorOutcome(500, ""), HttpErrorOutcome(404, ""),
     HttpErrorOutcome(403, "commentsDisabled"), ExceptionOutcome({"connection"})}

CommentScripts(cfg) == [1..cfg.retry_attempts -> CommentOutcomes]

IsCommentsDisabled(o) == o.type = "HttpError" /\ o.status = 403 /\ o.content = "commentsDisabled"

\* what the remote answered to the comment fetch of one video
CommentAnswer(cfg, s) ==
    IF ~cfg.enable_comments THEN "not asked"
    ELSE IF IsCommentsDisabled(s[1]) THEN "disabled"
    ELSE With(RetryRun(cfg, RetryInit, s), LAMBDA r :
              IF r.pc = "returned" THEN "comments" ELSE "failed")

NoResult == [kind |-> "none"]

\* get_channel_data has the video details and nothing else yet
AggStart ==
    [pc |-> "sort", all_videos_summary |-> <<>>, most_popular |-> <<>>,
     least_popular |-> <<>>, most_results |-> <<>>, least_results |-> <<>>,
     log |-> <<>>, result |-> NoResult]

InitAggregate ==
    /\ config \in AggConfigs
    /\ video_details \in VideoLists
    /\ video_details # <<>>
    /\ config.enable_comments =>
          \A i \in 1..Len(video_details) : video_details[i].statistics \in FewViewValues
    /\ agg = AggStart
    /\ NoRetry
    /\ NoComments
    /\ NoResolve
    /\ NoRequest
    /\ NoOther

\* video_details.sort(...), most_popular, least_popular
SortAndSelect ==
    /\ agg.pc = "sort"
    /\ LET sorted == SortByViews(video_details) IN
       agg' = [agg EXCEPT !.pc = "most", !.all_videos_summary = sorted,
                          !.most_popular = MostPopular(config, sorted),
                          !.least_popular = LeastPopular(config, sorted)]
    /\ UNCHANGED <<config, video_details, retryVars, poolVars, resolveVars, req, otherVars>>

\* the fetch of the comments of the next video of a bucket ended as c
FetchedPair(a, video, c, s) ==
    LET entry == [id |-> video.id, answer |-> CommentAnswer(config, s), raised |-> c.raised]
    IN IF c.raised
       THEN [a EXCEPT !.pc = "done", !.log = Append(a.log, entry),
                      !.result = [kind |-> "raise", exc |-> Reraise(c.exc)]]
       ELSE [a EXCEPT !.log = Append(a.log, entry)]

FetchMostPopularComments ==
    /\ agg.pc = "most"
    /\ Len(agg.most_results) < Len(agg.most_popular)
    /\ \E s \in CommentScripts(config) :
       \E c \in {CommentsForVideo(config, s)} :
       \E video \in {agg.most_popular[Len(agg.most_results) + 1]} :
       \E a \in {FetchedPair(agg, video, c, s)} :
          agg' = IF c.raised THEN a
                 ELSE [a EXCEPT !.most_results =
                           Append(agg.most_results, [video |-> video, comments |-> c.comments])]
    /\ UNCHANGED <<config, video_details, retryVars, poolVars, resolveVars, req, otherVars>>

MostPopularFetched ==
    /\ agg.pc = "most"
    /\ Len(agg.most_results) = Len(agg.most_popular)
    /\ agg' = [agg EXCEPT !.pc = "least"]
    /\ UNCHANGED <<config, video_details, retryVars, poolVars, resolveVars, req, otherVars>>

FetchLeastPopularComments ==
    /\ agg.pc = "least"
    /\ Len(agg.least_results) < Len(agg.least_popular)
    /\ \E s \in CommentScripts(config) :
       \E c \in {CommentsForVideo(config, s)} :
       \E video \in {agg.least_popular[Len(agg.least_results) + 1]} :
       \E a \in {FetchedPair(agg, video, c, s)} :
          agg' = IF c.raised THEN a
                 ELSE [a EXCEPT !.least_results =
                           Append(agg.least_results, [video |-> video, comments |-> c.comments])]
    /\ UNCHANGED <<config, video_details, retryVars, poolVars, resolveVars, req, otherVars>>

\* the dictionary get_channel_data returns
ReturnChannelData ==
    /\ agg.pc = "least"
    /\ Len(agg.least_results) = Len(agg.least_popular)
    /\ agg' = [agg EXCEPT !.pc = "done",
                          !.result = [kind |-> "return",
                                      all_videos_summary |-> agg.all_videos_summary,
                                      most_popular_videos_with_comments |-> agg.most_results,
                                      least_popular_videos_with_comments |-> agg.least_results]]
    /\ UNCHANGED <<config, video_details, retryVars, poolVars, resolveVars, req, otherVars>>

NextAggregate ==
    \/ SortAndSelect
    \/ FetchMostPopularComments
    \/ MostPopularFetched
    \/ FetchLeastPopularComments
    \/ ReturnChannelData

SpecAggregate == InitAggregate /\ [][NextAggregate]_vars

(***************************************************************************)
(* Claims about the aggregation                                            *)
(***************************************************************************)
AllResults == agg.most_results \o agg.least_results

Returned == agg.pc = "done" /\ agg.result.kind = "return"

Ids(list) == {list[i].id : i \in 1..Len(list)}

\* C4: a comment fetch that fails, whatever the failure, gives the video an
\* empty comment sequence and get_channel_data still returns its result.
C4_FailedCommentFetchIsTolerated ==
    /\ \A i \in 1..Len(agg.log) :
          agg.log[i].answer = "failed" =>
              /\ ~agg.log[i].raised
              /\ i <= Len(AllResults)
              /\ AllResults[i].comments = <<>>
    /\ agg.pc = "done" => agg.result.kind = "return"

\* C5: a video whose comment fetch answers 403 commentsDisabled is paired
\* with an empty comment sequence, raises nothing, and when no other fetch
\* fails every selected video has had its comments fetched.
C5_CommentsDisabledIsEmpty ==
    /\ \A i \in 1..Len(agg.log) :
          agg.log[i].answer = "disabled" =>
              /\ ~agg.log[i].raised
              /\ i <= Len(AllResults)
              /\ AllResults[i].video.id = agg.log[i].id
              /\ AllResults[i].comments = <<>>
    /\ (agg.pc = "done" /\ \A i \in 1..Len(agg.log) : agg.log[i].answer \in {"disabled", "comments"}) =>
          /\ agg.result.kind = "return"
          /\ Len(agg.log) = Len(agg.most_popular) + Len(agg.least_popular)

C5_Witness ==
    /\ Returned
    /\ Len(agg.log) = 3
    /\ agg.log[1].answer = "disabled"
    /\ agg.log[2].answer = "comments"
    /\ agg.log[3].answer = "disabled"
    /\ AllResults[1].comments = <<>>
    /\ AllResults[2].comments = <<"i1">>

\* C6: no video is in both buckets, and the least-popular bucket is empty
\* whenever total <= popular_videos_count + least_popular_videos_count.
C6_BucketsDoNotOverlap ==
    Returned =>
        /\ Ids([i \in 1..Len(agg.result.most_popular_videos_with_comments) |->
                   agg.result.most_popular_videos_with_comments[i].video])
             \cap Ids([i \in 1..Len(agg.result.least_popular_videos_with_comments) |->
                   agg.result.least_popular_videos_with_comments[i].video]) = {}
        /\ Len(video_details) <= config.popular_videos_count + config.least_popular_videos_count =>
              agg.result.least_popular_videos_with_comments = <<>>

\* C20: whatever the total and the configuration, the most-popular bucket is
\* the first min(popular_videos_count, total) ranked videos, and the
\* least-popular bucket is taken from the tail of the ranking and never has
\* more than min(least_popular_videos_count, total) videos, also when
\* least_popular_videos_count is 0.
C20_BucketSizes ==
    agg.pc \in {"most", "least", "done"} =>
        LET total == Len(video_details)
            ranked == agg.all_videos_summary
        IN /\ agg.most_popular = SubSeq(ranked, 1, Min(config.popular_videos_count, total))
           /\ Len(agg.least_popular) <= Min(config.least_popular_videos_count, total)
           /\ agg.least_popular = SubSeq(ranked, total - Len(agg.least_popular) + 1, total)

\* the view count a record is ranked by: the decimal value of viewCount, 0 when
\* statistics or viewCount is missing
RECURSIVE DecimalValue(_, _)
DecimalValue(digits, acc) ==
    IF digits = <<>> THEN acc ELSE DecimalValue(SubSeq(digits, 2, Len(digits)), 10 * acc + digits[1])

RankedViews(v) ==
    IF v.statistics.present /\ v.statistics.has_viewCount
    THEN DecimalValue(v.statistics.viewCount, 0) ELSE 0

\* C7: all_videos_summary is a permutation of the fetched details, sorted by
\* view count descending (missing counted as 0), equal counts keeping their
\* retrieval order (the id of a record is its position in the retrieval).
C7_SummaryIsStableSortedPermutation ==
    agg.pc \notin {"sort", "idle"} =>
        LET summary == agg.all_videos_summary IN
        /\ Len(summary) = Len(video_details)
        /\ \A i \in 1..Len(summary) : summary[i] = video_details[summary[i].id]
        /\ \A i, j \in 1..Len(summary) : i # j => summary[i].id # summary[j].id
        /\ \A i, j \in 1..Len(summary) : i < j =>
              \/ RankedViews(summary[i]) > RankedViews(summary[j])
              \/ RankedViews(summary[i]) = RankedViews(summary[j]) /\ summary[i].id < summary[j].id

C7_Witness ==
    /\ Returned
    /\ video_details = <<VideoRecord(1, NoViewCount), VideoRecord(2, Statistics(<<1, 0>>)),
                         VideoRecord(3, Statistics(<<0>>))>>
    /\ agg.result.all_videos_summary = <<video_details[2], video_details[1], video_details[3]>>

(***************************************************************************)
(* Specification of _get_videos_with_comments_concurrent: executor.map     *)
(* submits one future per video, at most max_workers of them run at a      *)
(* time, each attempt of a comment call is a step of its worker, and the   *)
(* caller takes the results of the futures                                 *)
(***************************************************************************)
PoolOutcomes ==
    {OkOutcome(<<"i1">>), TimeoutOutcome, HttpErrorOutcome(500, ""),
     HttpErrorOutcome(403, "commentsDisabled")}

PoolConfigs ==
    {[DefaultConfig EXCEPT !.max_workers = w, !.enable_concurrent_fetching = cc,
                           !.enable_comments = c, !.retry_attempts = AggAttempts] :
        w \in 1..MaxWorkers, cc \in BOOLEAN, c \in BOOLEAN}

PendingTask ==
    [status |-> "pending", rs |-> RetryInit, in_flight |-> FALSE, comments |-> <<>>,
     raised |-> FALSE, exc |-> NoRaise]

InitComments ==
    /\ config \in PoolConfigs
    /\ \E n \in 1..PoolVideos :
          /\ cscripts \in [1..n -> [1..config.retry_attempts -> PoolOutcomes]]
          /\ pool = [pc |-> "fetching",
                     videos |-> [i \in 1..n |-> VideoRecord(i, Statistics(<<2>>))],
                     tasks |-> [i \in 1..n |-> PendingTask],
                     finished |-> <<>>, results |-> <<>>, youtube |-> 0,
                     outcome |-> [kind |-> "none", results |-> <<>>, exc |-> NoRaise]]
    /\ ~config.enable_comments =>
          \A i \in DOMAIN cscripts : \A a \in DOMAIN cscripts[i] : cscripts[i][a] = OkOutcome(<<"i1">>)
    /\ NoRetry
    /\ NoAggregate
    /\ NoResolve
    /\ NoRequest
    /\ NoOther

Running(p) == {i \in DOMAIN p.tasks : p.tasks[i].status = "running"}

Pending(p) == {i \in DOMAIN p.tasks : p.tasks[i].status = "pending"}

\* the future whose result the caller takes next: map yields in the order of the videos
NextToCollect_AsCompleted(p) ==
    IF Len(p.finished) > Len(p.results) THEN p.finished[Len(p.results) + 1] ELSE Len(p.videos) + 1

NextToCollect(p) == Len(p.results) + 1

\* the future of task i gets the end of fetch_video_with_comments
Completed(p, i, c) ==
    [p EXCEPT !.tasks[i] = [@ EXCEPT !.status = "done", !.comments = c.comments,
                                     !.raised = c.raised, !.exc = c.exc],
              !.finished = Append(p.finished, i)]

\* a free worker takes the first video of the queue
WorkerTakesTask(i) ==
    /\ config.enable_concurrent_fetching
    /\ pool.pc \in {"fetching", "raising"}
    /\ i \in Pending(pool)
    /\ \A j \in Pending(pool) : i <= j
    /\ Cardinality(Running(pool)) < config.max_workers
    /\ pool' = IF config.enable_comments
               THEN [pool EXCEPT !.tasks[i].status = "running"]
               ELSE Completed(pool, i, CommentsSkipped)
    /\ UNCHANGED <<config, cscripts, retryVars, aggVars, resolveVars, req, otherVars>>

\* a running worker starts an execution of its comment call: api_call is
\* submitted and request.execute() runs
WorkerCalls(i) ==
    /\ i \in Running(pool)
    /\ ~pool.tasks[i].in_flight
    /\ pool' = [pool EXCEPT !.tasks[i].in_flight = TRUE]
    /\ UNCHANGED <<config, cscripts, retryVars, aggVars, resolveVars, req, otherVars>>

\* the call of a worker ends and _retry_api_call handles its outcome; a
\* rebuild assigns a new client to self.youtube of the one fetcher
WorkerAttempt(i) ==
    /\ i \in Running(pool)
    /\ pool.tasks[i].in_flight
    /\ \E rebuildOk \in BOOLEAN :
          \E r \in {RetryAttempt(config, pool.tasks[i].rs,
                                 NextOutcome(cscripts[i], pool.tasks[i].rs.calls), rebuildOk)} :
          \E p \in {[pool EXCEPT !.tasks[i].rs = r, !.tasks[i].in_flight = FALSE,
                                 !.youtube = @ + r.rebuilds - pool.tasks[i].rs.rebuilds]} :
             pool' = IF r.pc = "try" THEN p ELSE Completed(p, i, CommentsResult(r))
    /\ UNCHANGED <<config, cscripts, retryVars, aggVars, resolveVars, req, otherVars>>

\* the caller takes the result of the next future: a pair, or the exception,
\* which cancels the futures that have not started
MainCollects ==
    /\ pool.pc = "fetching"
    /\ LET k == NextToCollect(pool) IN
       /\ k <= Len(pool.videos)
       /\ pool.tasks[k].status = "done"
       /\ pool' = IF pool.tasks[k].raised
                  THEN [pool EXCEPT !.pc = "raising",
                                    !.tasks = [i \in DOMAIN pool.tasks |->
                                                  IF pool.tasks[i].status = "pending"
                                                  THEN [pool.tasks[i] EXCEPT !.status = "cancelled"]
                                                  ELSE pool.tasks[i]],
                                    !.outcome = [kind |-> "raise", results |-> <<>>,
                                                 exc |-> pool.tasks[k].exc]]
                  ELSE [pool EXCEPT !.results =
                            Append(pool.results, [video |-> pool.videos[k],
                                                  comments |-> pool.tasks[k].comments])]
    /\ UNCHANGED <<config, cscripts, retryVars, aggVars, resolveVars, req, otherVars>>

MainReturns ==
    /\ pool.pc = "fetching"
    /\ config.enable_concurrent_fetching
    /\ Len(pool.results) = Len(pool.videos)
    /\ pool' = [pool EXCEPT !.pc = "done",
                            !.outcome = [kind |-> "return", results |-> pool.results, exc |-> NoRaise]]
    /\ UNCHANGED <<config, cscripts, retryVars, aggVars, resolveVars, req, otherVars>>

\* leaving the with block waits for the running workers before the exception goes up
ShutdownAfterRaise ==
    /\ pool.pc = "raising"
    /\ Running(pool) = {}
    /\ pool' = [pool EXCEPT !.pc = "done"]
    /\ UNCHANGED <<config, cscripts, retryVars, aggVars, resolveVars, req, otherVars>>

\* enable_concurrent_fetching is off: the sequential method does the work
FetchSequentially ==
    /\ pool.pc = "fetching"
    /\ ~config.enable_concurrent_fetching
    /\ pool' = [pool EXCEPT !.pc = "done",
                            !.outcome = SequentialFetch(config, pool.videos, cscripts, 1, <<>>)]
    /\ UNCHANGED <<config, cscripts, retryVars, aggVars, resolveVars, req, otherVars>>

NextComments ==
    \/ \E i \in DOMAIN pool.tasks : WorkerTakesTask(i)
    \/ \E i \in DOMAIN pool.tasks : WorkerCalls(i)
    \/ \E i \in DOMAIN pool.tasks : WorkerAttempt(i)
    \/ MainCollects
    \/ MainReturns
    \/ ShutdownAfterRaise
    \/ FetchSequentially

SpecComments == InitComments /\ [][NextComments]_vars

\* C10: for the same videos and the same remote responses the concurrent
\* fetch, whatever the interleaving of its workers, ends as the sequential
\* fetch does: the same pairs in the order of the videos, or the same error.
C10_ConcurrentEqualsSequential ==
    (pool.pc = "done" /\ config.enable_concurrent_fetching) =>
        pool.outcome = SequentialFetch(config, pool.videos, cscripts, 1, <<>>)

C10_Witness ==
    /\ pool.pc = "done"
    /\ config.enable_concurrent_fetching
    /\ pool.finished = <<2, 1>>
    /\ pool.outcome.kind = "return"
    /\ pool.outcome.results[1].video.id = 1
    /\ pool.outcome.results[1].comments = <<"i1">>
    /\ pool.outcome.results[2].comments = <<>>
    /\ pool.tasks[1].rs.calls = 2

(***************************************************************************)
(* Strings are sequences of characters; None is no string                  *)
(***************************************************************************)
None == <<"<None>">>

Truthy(x) == x # None /\ x # <<>>

\* sub in s
Contains(sub, s) == \E i \in 0..(Len(s) - Len(sub)) : SubSeq(s, i + 1, i + Len(sub)) = sub

\* s.startswith(prefix)
StartsWith(s, prefix) == Len(prefix) <= Len(s) /\ SubSeq(s, 1, Len(prefix)) = prefix

\* s[n:]
From(s, n) == SubSeq(s, n + 1, Len(s))

\* s.lstrip(c)
RECURSIVE LStrip(_, _)
LStrip(s, c) == IF s # <<>> /\ s[1] = c THEN LStrip(From(s, 1), c) ELSE s

\* s.split(sep)[-1]
RECURSIVE AfterLast(_, _)
AfterLast(s, sep) ==
    IF \E i \in 0..(Len(s) - Len(sep)) : SubSeq(s, i + 1, i + Len(sep)) = sep
    THEN LET i == CHOOSE k \in 0..(Len(s) - Len(sep)) :
                      /\ SubSeq(s, k + 1, k + Len(sep)) = sep
                      /\ \A j \in 0..(k - 1) : SubSeq(s, j + 1, j + Len(sep)) # sep
         IN AfterLast(From(s, i + Len(sep)), sep)
    ELSE s

\* s.lower()
Lower(s) ==
    LET Upper == <<"A", "B", "C", "D", "E", "F", "G", "H", "I", "J", "K", "L", "M",
                   "N", "O", "P", "Q", "R", "S", "T", "U", "V", "W", "X", "Y", "Z">>
        LowerLetters == <<"a", "b", "c", "d", "e", "f", "g", "h", "i", "j", "k", "l", "m",
                          "n", "o", "p", "q", "r", "s", "t", "u", "v", "w", "x", "y", "z">>
        LowerChar(c) ==
            IF \E i \in DOMAIN Upper : Upper[i] = c
            THEN LowerLetters[CHOOSE i \in DOMAIN Upper : Upper[i] = c]
            ELSE c
    IN [i \in 1..Len(s) |-> LowerChar(s[i])]

\* s.replace(c, d) for characters c and d
Replace(s, c, d) == [i \in 1..Len(s) |-> IF s[i] = c THEN d ELSE s[i]]

\* s.split(): the words between the spaces
RECURSIVE Words(_)
Words(s) ==
    LET t == LStrip(s, " ") IN
    IF t = <<>> THEN <<>>
    ELSE LET n == IF \E i \in 1..Len(t) : t[i] = " "
                  THEN (CHOOSE i \in 1..Len(t) : t[i] = " " /\ \A j \in 1..(i - 1) : t[j] # " ") - 1
                  ELSE Len(t)
         IN <<SubSeq(t, 1, n)>> \o Words(From(t, n))

(***************************************************************************)
(* Links, as urlparse splits them                                          *)
(***************************************************************************)
Link(netloc, path, v) == [netloc |-> netloc, path |-> path, v |-> v]

YoutubeCom == <<"y", "o", "u", "t", "u", "b", "e", ".", "c", "o", "m">>

WwwYoutubeCom == <<"w", "w", "w", ".">> \o YoutubeCom

YoutuBe == <<"y", "o", "u", "t", "u", ".", "b", "e">>

\* _validate_url
ValidateUrl(link) == link.netloc \in {WwwYoutubeCom, YoutubeCom, YoutuBe}

WatchWord == <<"w", "a", "t", "c", "h">>

EmbedPart == <<"/", "e", "m", "b", "e", "d", "/">>

ChannelPart == <<"/", "c", "h", "a", "n", "n", "e", "l", "/">>

CPart == <<"/", "c", "/">>

UserPart == <<"/", "u", "s", "e", "r", "/">>

\* _extract_video_id
ExtractVideoId_LastPathPart(link) ==
    IF ~ValidateUrl(link) THEN None
    ELSE IF link.netloc = YoutuBe THEN LStrip(link.path, "/")
    ELSE IF Contains(WatchWord, link.path) THEN AfterLast(link.path, <<"/">>)
    ELSE IF Contains(EmbedPart, link.path) THEN AfterLast(link.path, EmbedPart)
    ELSE None

ExtractVideoId(link) ==
    IF ~ValidateUrl(link) THEN None
    ELSE IF link.netloc = YoutuBe THEN LStrip(link.path, "/")
    ELSE IF Contains(WatchWord, link.path) THEN link.v
    ELSE IF Contains(EmbedPart, link.path) THEN AfterLast(link.path, EmbedPart)
    ELSE None

(***************************************************************************)
(* Remote calls of the resolver.  The remote state gives each endpoint its *)
(* outcome: remote.test (search.list q="test"), remote.forHandle and       *)
(* remote.forUsername (channels.list, the value is the ids of the items),  *)
(* remote.search (search.list by query, the value is the channelId and     *)
(* title of the items), remote.videos (videos.list by video id, the value  *)
(* is the id and snippet.channelId of the items).  A call returns what it  *)
(* gave and the trace of the executions it made.                           *)
(***************************************************************************)
ConstScript(cfg, o) == [i \in 1..cfg.retry_attempts |-> o]

\* self._retry_api_call(endpoint, ...) against an endpoint of outcome o
WrappedCall(cfg, o, label) ==
    With(RetryRun(cfg, RetryInit, ConstScript(cfg, o)), LAMBDA r :
         [ok |-> r.pc = "returned", value |-> r.value, exc |-> r.exc,
          trace |-> [i \in 1..r.calls |-> [endpoint |-> label, wrapped |-> TRUE]]])

\* endpoint(...).execute() outside of the wrapper
DirectCall(o, label) ==
    [ok |-> o.type = "ok", value |-> o.value, exc |-> Raw(o),
     trace |-> <<[endpoint |-> label, wrapped |-> FALSE]>>]

\* what search.list answers to query q with maxResults = n
SearchOutcome(rem, q, n) ==
    LET o == IF q \in DOMAIN rem.search THEN rem.search[q] ELSE OkOutcome(<<>>) IN
    IF o.type = "ok" THEN [o EXCEPT !.value = SubSeq(o.value, 1, Min(n, Len(o.value)))] ELSE o

Quoted(q) == <<"\"">> \o q \o <<"\"">>

\* the title test of the basic search of _search_channel_by_handle
TitleMatches(title, clean_handle) ==
    LET title_lower == Lower(title)
        handle_lower == Lower(clean_handle)
    IN \/ Contains(handle_lower, title_lower)
       \/ Contains(title_lower, handle_lower)
       \/ /\ \E w \in 1..Len(Words(handle_lower)) : Contains(Words(handle_lower)[w], title_lower)
          /\ Len(Words(handle_lower)) > 1

\* the first item, whatever its title
BestMatch_FirstItem(items, clean_handle) == items[1].channelId

\* the first item whose title matches, else the first item
BestMatch(items, clean_handle) ==
    IF \E i \in 1..Len(items) : TitleMatches(items[i].title, clean_handle)
    THEN items[CHOOSE i \in 1..Len(items) :
                   /\ TitleMatches(items[i].title, clean_handle)
                   /\ \A j \in 1..(i - 1) : ~TitleMatches(items[j].title, clean_handle)].channelId
    ELSE items[1].channelId

Resolved(id, trace) == [id |-> id, trace |-> trace]

\* _search_channel_by_handle: the connection test, then the strategies in
\* their order, each one only when the ones before gave nothing
SearchChannelByHandle(cfg, rem, handle) ==
    LET clean_handle == LStrip(handle, "@") IN
    With(DirectCall(rem.test, "search.list test"), LAMBDA test :
    IF ~test.ok THEN Resolved(None, test.trace)
    ELSE With(WrappedCall(cfg, rem.forHandle, "channels.list forHandle"), LAMBDA s1 :
    IF s1.ok /\ s1.value # <<>> THEN Resolved(s1.value[1], test.trace \o s1.trace)
    ELSE With(WrappedCall(cfg, rem.forUsername, "channels.list forUsername"), LAMBDA s2 :
    IF s2.ok /\ s2.value # <<>> THEN Resolved(s2.value[1], test.trace \o s1.trace \o s2.trace)
    ELSE With(DirectCall(SearchOutcome(rem, clean_handle, 10), "search.list basic"), LAMBDA s3 :
    IF s3.ok /\ s3.value # <<>>
    THEN Resolved(BestMatch(s3.value, clean_handle), test.trace \o s1.trace \o s2.trace \o s3.trace)
    ELSE With(DirectCall(SearchOutcome(rem, Quoted(clean_handle), 5), "search.list quoted"), LAMBDA s4 :
    IF s4.ok /\ s4.value # <<>>
    THEN Resolved(s4.value[1].channelId,
                  test.trace \o s1.trace \o s2.trace \o s3.trace \o s4.trace)
    ELSE Resolved(None, test.trace \o s1.trace \o s2.trace \o s3.trace \o s4.trace))))))

\* the title test of _try_direct_handle_resolution
VariantMatches(title, clean_handle, query) ==
    Contains(Lower(clean_handle), Lower(title)) \/ Contains(Lower(query), Lower(title))

\* the loop of _try_direct_handle_resolution over the queries left
RECURSIVE TryQueries(_, _, _, _)
TryQueries(rem, clean_handle, queries, trace) ==
    IF queries = <<>> THEN Resolved(None, trace)
    ELSE With(DirectCall(SearchOutcome(rem, queries[1], 3), "search.list variant"), LAMBDA c :
         IF c.ok /\ \E i \in 1..Len(c.value) :
                       VariantMatches(c.value[i].title, clean_handle, queries[1])
         THEN Resolved(c.value[CHOOSE i \in 1..Len(c.value) :
                           /\ VariantMatches(c.value[i].title, clean_handle, queries[1])
                           /\ \A j \in 1..(i - 1) :
                                 ~VariantMatches(c.value[j].title, clean_handle, queries[1])].channelId,
                       trace \o c.trace)
         ELSE TryQueries(rem, clean_handle, From(queries, 1), trace \o c.trace))

\* _try_direct_handle_resolution
TryDirectHandleResolution(rem, handle) ==
    LET clean_handle == LStrip(handle, "@") IN
    TryQueries(rem, clean_handle,
               <<clean_handle, Replace(clean_handle, "_", " "), Replace(clean_handle, "-", " "),
                 Lower(clean_handle)>>, <<>>)

\* _search_channel_by_query: an exception other than HttpError goes up to
\* _extract_channel_id, which logs it; the identifier is None either way
SearchChannelByQuery(cfg, rem, query) ==
    With(WrappedCall(cfg, SearchOutcome(rem, query, 5), "search.list query"), LAMBDA c :
         IF c.ok /\ c.value # <<>> THEN Resolved(c.value[1].channelId, c.trace)
         ELSE Resolved(None, c.trace))

\* what videos.list answers for the one video id
VideosOutcome(rem, video_id) ==
    IF video_id \in DOMAIN rem.videos THEN rem.videos[video_id] ELSE OkOutcome(<<>>)

\* _get_video_details for at most 50 ids, one videos.list call: the items,
\* none after an HttpError, or the exception the wrapper raised
GetVideoDetails(cfg, o) ==
    With(WrappedCall(cfg, o, "videos.list"), LAMBDA c :
         IF c.ok THEN [raised |-> FALSE, details |-> c.value, exc |-> NoRaise, trace |-> c.trace]
         ELSE IF c.exc.type = "HttpError"
              THEN [raised |-> FALSE, details |-> <<>>, exc |-> NoRaise, trace |-> c.trace]
              ELSE [raised |-> TRUE, details |-> <<>>, exc |-> c.exc, trace |-> c.trace])

\* the branches of _extract_channel_id on a valid link that is not cached
ResolveUncached(cfg, rem, link) ==
    IF Contains(WatchWord, link.path)
    THEN LET video_id == ExtractVideoId(link) IN
         IF ~Truthy(video_id) THEN Resolved(None, <<>>)
         ELSE With(GetVideoDetails(cfg, VideosOutcome(rem, video_id)), LAMBDA d :
                   IF ~d.raised /\ d.details # <<>>
                   THEN Resolved(d.details[1].channelId, d.trace)
                   ELSE Resolved(None, d.trace))
    ELSE IF Contains(ChannelPart, link.path) THEN Resolved(AfterLast(link.path, <<"/">>), <<>>)
    ELSE IF StartsWith(link.path, <<"/", "@">>)
         THEN With(SearchChannelByHandle(cfg, rem, From(link.path, 2)), LAMBDA first :
                   IF Truthy(first.id) THEN first
                   ELSE With(TryDirectHandleResolution(rem, From(link.path, 2)), LAMBDA second :
                             Resolved(second.id, first.trace \o second.trace)))
    ELSE IF Contains(CPart, link.path) \/ Contains(UserPart, link.path)
         THEN SearchChannelByQuery(cfg, rem, AfterLast(link.path, <<"/">>))
    ELSE Resolved(None, <<>>)

\* cache_key = f"channel_id:{youtube_link}"
CacheKey(link) == <<"channel_id", link>>

CacheStore_Never(cache, link, channel_id) == cache

\* the identifier is stored whatever it is
CacheStore_AnyIdentifier(cache, link, channel_id) ==
    [k \in DOMAIN cache \cup {CacheKey(link)} |->
        IF k = CacheKey(link) THEN channel_id ELSE cache[k]]

\* if channel_id: self._cache[cache_key] = channel_id
CacheStore(cache, link, channel_id) ==
    IF Truthy(channel_id)
    THEN [k \in DOMAIN cache \cup {CacheKey(link)} |->
             IF k = CacheKey(link) THEN channel_id ELSE cache[k]]
    ELSE cache

\* _extract_channel_id: the identifier, the cache afterwards, the rem calls made
ExtractChannelId(cfg, cache, rem, link) ==
    IF ~ValidateUrl(link) THEN [id |-> None, cache |-> cache, trace |-> <<>>]
    ELSE IF CacheKey(link) \in DOMAIN cache
         THEN [id |-> cache[CacheKey(link)], cache |-> cache, trace |-> <<>>]
    ELSE With(ResolveUncached(cfg, rem, link), LAMBDA r :
              [id |-> r.id, cache |-> CacheStore(cache, link, r.id), trace |-> r.trace])

(***************************************************************************)
(* Specification of the resolutions made on one fetcher: any sequence of   *)
(* _extract_channel_id calls and clear_cache calls against a remote state  *)
(* that does not change                                                    *)
(***************************************************************************)
U1 == <<"U", "1">>

U2 == <<"U", "2">>

U3 == <<"U", "3">>

U4 == <<"U", "4">>

HandleAB == <<"a", "_", "B">>

ChannelLink == Link(WwwYoutubeCom, ChannelPart \o U1, None)

HandleLink == Link(WwwYoutubeCom, <<"/", "@">> \o HandleAB, None)

WatchLink == Link(YoutubeCom, <<"/">> \o WatchWord, <<"x">>)

LegacyLink == Link(WwwYoutubeCom, CPart \o <<"a", "b">>, None)

MobileLink == Link(<<"m", ".">> \o YoutubeCom, ChannelPart \o U1, None)

ResolveLinks == {ChannelLink, HandleLink, WatchLink, LegacyLink, MobileLink}

MatchingItem == [channelId |-> U3, title |-> <<"A", "_", "b", " ", "T", "V">>]

OtherItem == [channelId |-> U4, title |-> <<"z", "z">>]

SearchAnswers ==
    {OkOutcome(<<>>), OkOutcome(<<OtherItem, MatchingItem>>), OkOutcome(<<OtherItem>>),
     HttpErrorOutcome(403, "quotaExceeded")}

HandleQueries ==
    {HandleAB, Quoted(HandleAB), Replace(HandleAB, "_", " "), Lower(HandleAB), <<"a", "b">>}

\* every query answered alike, or one query only answered with items
SearchTables ==
    {[q \in HandleQueries |-> o] : o \in SearchAnswers}
    \cup {[q \in HandleQueries |-> IF q = q0 THEN OkOutcome(<<OtherItem, MatchingItem>>)
                                   ELSE OkOutcome(<<>>)] :
            q0 \in {Quoted(HandleAB), Replace(HandleAB, "_", " "), Lower(HandleAB)}}

VideoAnswers ==
    {OkOutcome(<<[id |-> <<"x">>, channelId |-> U1]>>), OkOutcome(<<>>),
     HttpErrorOutcome(500, ""), TimeoutOutcome}

Remotes ==
    [test : {OkOutcome(<<>>), ExceptionOutcome({"connection"})},
     forHandle : {OkOutcome(<<U1>>), OkOutcome(<<>>), HttpErrorOutcome(400, "")},
     forUsername : {OkOutcome(<<U2>>), OkOutcome(<<>>)},
     search : SearchTables,
     videos : [{<<"x">>} -> VideoAnswers]]

ResolveConfigs == {[DefaultConfig EXCEPT !.retry_attempts = AggAttempts]}

NoLast == [link |-> ChannelLink, id |-> None, trace |-> <<>>, again |-> FALSE, before |-> None]

InitResolve ==
    /\ config \in ResolveConfigs
    /\ remote \in Remotes
    /\ fetcher = [cache |-> <<>>]
    /\ hist = [pc |-> "fresh", prev |-> <<>>, last |-> NoLast]
    /\ NoRetry
    /\ NoAggregate
    /\ NoComments
    /\ NoRequest
    /\ NoOther

\* a call of _extract_channel_id
ResolveLink(link) ==
    /\ hist.pc \in {"fresh", "resolved"}
    /\ \E r \in {ExtractChannelId(config, fetcher.cache, remote, link)} :
       /\ fetcher' = [fetcher EXCEPT !.cache = r.cache]
       /\ hist' = [pc |-> "resolved",
                   prev |-> [l \in DOMAIN hist.prev \cup {link} |-> IF l = link THEN r.id ELSE hist.prev[l]],
                   last |-> [link |-> link, id |-> r.id, trace |-> r.trace,
                             again |-> link \in DOMAIN hist.prev,
                             before |-> IF link \in DOMAIN hist.prev THEN hist.prev[link] ELSE None]]
    /\ UNCHANGED <<config, remote, retryVars, aggVars, poolVars, req, otherVars>>

\* clear_cache
ClearCache ==
    /\ hist.pc = "resolved"
    /\ fetcher' = [fetcher EXCEPT !.cache = <<>>]
    /\ hist' = [pc |-> "fresh", prev |-> <<>>, last |-> NoLast]
    /\ UNCHANGED <<config, remote, retryVars, aggVars, poolVars, req, otherVars>>

NextResolve ==
    \/ \E link \in ResolveLinks : ResolveLink(link)
    \/ ClearCache

SpecResolve == InitResolve /\ [][NextResolve]_vars

\* C8: on one fetcher whose cache was not cleared in between, a second
\* resolution of a link against the unchanged remote state returns the
\* identifier the first one returned, and makes no remote call when the
\* first one succeeded.
C8_ResolutionIsIdempotentAndCached ==
    (hist.pc = "resolved" /\ hist.last.again) =>
        /\ hist.last.id = hist.last.before
        /\ Truthy(hist.last.before) => hist.last.trace = <<>>

C8_Witness ==
    /\ hist.pc = "resolved"
    /\ hist.last.again
    /\ hist.last.link = HandleLink
    /\ hist.last.id = U3
    /\ hist.last.trace = <<>>
    /\ DOMAIN hist.prev = {HandleLink, WatchLink}
    /\ remote.videos[<<"x">>].type = "TimeoutError"

\* C19: every remote call of the fetcher is issued through _retry_api_call:
\* no execution made by a resolution is one of a request executed directly.
C19_EveryCallIsWrapped ==
    hist.pc = "resolved" =>
        \A i \in 1..Len(hist.last.trace) : hist.last.trace[i].wrapped

(***************************************************************************)
(* Specification of analyze_link: one request from the link to the value   *)
(* returned or the exception raised.  The remote answers each call as it   *)
(* likes.  From the fetched video details on, get_channel_data goes on     *)
(* with the steps of the aggregation above.                                *)
(***************************************************************************)
FacebookCom == <<"f", "a", "c", "e", "b", "o", "o", "k", ".", "c", "o", "m">>

InstagramCom == <<"i", "n", "s", "t", "a", "g", "r", "a", "m", ".", "c", "o", "m">>

\* links of every kind analyze_link tells apart: channel and video links of
\* YouTube, the handle @watch, a short link, a text without host, the other
\* platforms, a foreign host
AnalyzeLinks ==
    {ChannelLink, HandleLink, WatchLink, LegacyLink, MobileLink,
     Link(WwwYoutubeCom, <<"/", "@">> \o WatchWord, None),
     Link(YoutuBe, <<"/", "x">>, None),
     Link(<<>>, <<"a", "b", "c">>, None),
     Link(<<"w", "w", "w", ".">> \o FacebookCom, <<"/", "p">>, None),
     Link(<<"w", "w", "w", ".">> \o InstagramCom, <<"/", "p">>, None),
     Link(<<"e", "x", "a", "m", "p", "l", "e", ".", "c", "o", "m">>, <<"/">>, None)}

\* urlparse(link).hostname: the host in lower case, None when there is none
Hostname(link) == IF link.netloc = <<>> THEN None ELSE Lower(link.netloc)

\* the fetcher of a request has the default configuration, its number of
\* attempts and the sizes of its buckets taken from the bounds of the model
AnalyzeConfigs ==
    {[DefaultConfig EXCEPT !.retry_attempts = AggAttempts, !.popular_videos_count = MaxPopular,
                           !.least_popular_videos_count = MaxLeastPopular]}

\* the remote states the resolution of a request may meet
AnalyzeRemotes ==
    {r \in Remotes :
        /\ r.forUsername.value = <<>>
        /\ \A q \in DOMAIN r.search : r.search[q] = OkOutcome(<<>>)
        /\ r.videos[<<"x">>] = OkOutcome(<<>>)}

\* an identifier of a channel that has the letters of 'watch' in it
UWatch == <<"U">> \o WatchWord

\* what videos.list may answer for the video of the link: its record, with
\* the channel in its snippet or without one, no item, or a failure
CurrentVideoAnswers(video_id) ==
    {OkOutcome(<<[id |-> video_id, channelId |-> U1]>>),
     OkOutcome(<<[id |-> video_id, channelId |-> UWatch]>>),
     OkOutcome(<<[id |-> video_id, channelId |-> None]>>), OkOutcome(<<>>),
     HttpErrorOutcome(500, ""), TimeoutOutcome}

ChannelAnswers ==
    {OkOutcome(<<"item">>), OkOutcome(<<>>), HttpErrorOutcome(404, ""), HttpErrorOutcome(500, ""),
     TimeoutOutcome}

\* a playlist with one video more than the bucket of the most popular ones
MoreThanPopular == [i \in 1..(MaxPopular + 1) |-> i]

\* the pages playlistItems serves, the last one having no next page
PlaylistPages ==
    {<<OkOutcome(<<>>)>>, <<OkOutcome(<<1>>)>>, <<OkOutcome(<<1>>), OkOutcome(<<2>>)>>,
     <<OkOutcome(MoreThanPopular)>>,
     <<OkOutcome(<<1>>), HttpErrorOutcome(500, "")>>, <<HttpErrorOutcome(403, "")>>,
     <<TimeoutOutcome>>, <<OkOutcome(<<1>>), ExceptionOutcome({"connection"})>>}

\* _get_video_ids_from_playlist from page k on: the pages are executed
\* outside of the wrapper
RECURSIVE PlaylistIds(_, _, _, _)
PlaylistIds(cfg, pages, k, video_ids) ==
    IF k > Len(pages) \/ ~(Len(video_ids) < cfg.max_videos)
    THEN [raised |-> FALSE, video_ids |-> video_ids, exc |-> NoRaise, calls |-> k - 1]
    ELSE IF pages[k].type = "ok"
         THEN IF Len(video_ids \o pages[k].value) >= cfg.max_videos
              THEN [raised |-> FALSE, video_ids |-> TakeFirst(video_ids \o pages[k].value, cfg.max_videos),
                    exc |-> NoRaise, calls |-> k]
              ELSE PlaylistIds(cfg, pages, k + 1, video_ids \o pages[k].value)
         ELSE IF pages[k].type = "HttpError"
              THEN [raised |-> FALSE, video_ids |-> video_ids, exc |-> NoRaise, calls |-> k]
              ELSE [raised |-> TRUE, video_ids |-> <<>>, exc |-> Raw(pages[k]), calls |-> k]

\* what videos.list may answer for the ids of the playlist
DetailAnswers(video_ids) ==
    {OkOutcome([i \in 1..Len(video_ids) |-> VideoRecord(video_ids[i], views[i])]) :
        views \in [1..Len(video_ids) -> {NoStatistics, Statistics(<<2>>)}]}
    \cup {OkOutcome(<<>>), HttpErrorOutcome(500, ""), TimeoutOutcome}

NoVideo == [id |-> None, channelId |-> None]

\* the client handle is built before the key is looked at
NewFetcher_BuildsFirst(api_key) ==
    IF ~Truthy(api_key)
    THEN [raised |-> TRUE, exc |-> [Raw(ExceptionOutcome({})) EXCEPT !.type = "ValueError"], clients |-> 1]
    ELSE [raised |-> FALSE, exc |-> NoRaise, clients |-> 1]

\* YouTubeFetcher(api_key): the ValueError of a missing key, or a fetcher
\* with the one client handle it built
NewFetcher(api_key) ==
    IF ~Truthy(api_key)
    THEN [raised |-> TRUE, exc |-> [Raw(ExceptionOutcome({})) EXCEPT !.type = "ValueError"], clients |-> 0]
    ELSE [raised |-> FALSE, exc |-> NoRaise, clients |-> 1]

RequestStart(link, key) ==
    [pc |-> "analyze_link", link |-> link, api_key |-> key, caller |-> "analyze_link", clients |-> 0,
     channel_link |-> link, current_video_details |-> NoVideo, current_video_comments |-> <<>>,
     channel_id |-> None, video_ids |-> <<>>, called |-> {}, aggregate_failed |-> FALSE,
     result |-> [kind |-> "none", body |-> "", text |-> "", exc |-> NoRaise]]

InitAnalyze ==
    /\ config \in AnalyzeConfigs
    /\ \E link \in AnalyzeLinks, key \in {<<>>, <<"k">>} :
          \/ req = RequestStart(link, key)
          \/ /\ link = ChannelLink
             /\ req = [RequestStart(link, key) EXCEPT !.pc = "YouTubeFetcher", !.caller = "YouTubeFetcher"]
    /\ fetcher = [cache |-> <<>>]
    /\ remote = [test |-> NoExc]
    /\ hist = [pc |-> "idle"]
    /\ NoRetry
    /\ NoAggregate
    /\ NoComments
    /\ NoOther

Labels(trace) == {trace[i].endpoint : i \in 1..Len(trace)}

\* analyze_link returns a dictionary
Returns(r, body, text) ==
    [r EXCEPT !.pc = "done", !.result = [kind |-> "return", body |-> body, text |-> text, exc |-> NoRaise]]

\* an exception leaves get_channel_data or get_video_data, both of which let
\* only YouTubeFetcherError out, and analyze_link, which catches nothing
Raises(r, e) ==
    [r EXCEPT !.pc = "done",
              !.aggregate_failed = (r.caller = "get_video_data" /\ r.pc # "get_video_data"
                                    /\ r.pc # "current_video_comments"),
              !.result = [kind |-> "raise", body |-> "", text |-> "", exc |-> Reraise(e)]]

\* analyze_link up to the call of the fetcher
AnalyzeLink ==
    /\ req.pc = "analyze_link"
    /\ LET hostname == Hostname(req.link)
           path == req.link.path
       IN req' =
            IF ~Truthy(hostname) THEN Returns(req, "error", "Invalid link")
            ELSE IF Contains(YoutubeCom, hostname) \/ Contains(YoutuBe, hostname)
                 THEN IF ~Truthy(req.api_key)
                      THEN Returns(req, "error", "YouTube API Key is not configured.")
                      ELSE IF Contains(WatchWord, path) \/ Contains(YoutuBe, hostname)
                           THEN [req EXCEPT !.pc = "get_video_data", !.caller = "get_video_data",
                                            !.clients = NewFetcher(req.api_key).clients]
                           ELSE [req EXCEPT !.pc = "get_channel_data", !.caller = "get_channel_data",
                                            !.clients = NewFetcher(req.api_key).clients]
            ELSE IF Contains(FacebookCom, hostname)
                 THEN Returns(req, "status", "Facebook analysis not yet implemented.")
            ELSE IF Contains(InstagramCom, hostname)
                 THEN Returns(req, "status", "Instagram analysis not yet implemented.")
            ELSE Returns(req, "error", "Unknown or unsupported link type")
    /\ UNCHANGED <<config, retryVars, aggVars, poolVars, resolveVars, otherVars>>

\* the constructor called by itself, with whatever key its caller has
ConstructFetcher ==
    /\ req.pc = "YouTubeFetcher"
    /\ \E f \in {NewFetcher(req.api_key)} :
          req' = [req EXCEPT !.pc = "done", !.clients = f.clients,
                             !.result = IF f.raised
                                        THEN [kind |-> "raise", body |-> "", text |-> "", exc |-> f.exc]
                                        ELSE [kind |-> "return", body |-> "fetcher", text |-> "",
                                              exc |-> NoRaise]]
    /\ UNCHANGED <<config, retryVars, aggVars, poolVars, resolveVars, otherVars>>

\* get_video_data up to the call of get_channel_data
GetVideoData ==
    /\ req.pc = "get_video_data"
    /\ LET video_id == ExtractVideoId(req.link) IN
       IF ~Truthy(video_id)
       THEN req' = Raises(req, YouTubeFetcherError(NoExc))
       ELSE \E o \in CurrentVideoAnswers(video_id) : \E d \in {GetVideoDetails(config, o)} :
               req' = IF d.raised THEN Raises([req EXCEPT !.called = Labels(d.trace)], d.exc)
                      ELSE IF d.details = <<>> \/ ~Truthy(d.details[1].channelId)
                           THEN Raises([req EXCEPT !.called = Labels(d.trace)], YouTubeFetcherError(NoExc))
                      ELSE [req EXCEPT !.pc = "get_channel_data",
                                       !.called = Labels(d.trace),
                                       !.current_video_details = d.details[1],
                                       !.channel_link = Link(WwwYoutubeCom,
                                                             ChannelPart \o d.details[1].channelId, None)]
    /\ UNCHANGED <<config, retryVars, aggVars, poolVars, resolveVars, otherVars>>

\* get_channel_data: the channel identifier
GetChannelData ==
    /\ req.pc = "get_channel_data"
    /\ \E rem \in AnalyzeRemotes :
       \E r \in {ExtractChannelId(config, fetcher.cache, rem, req.channel_link)} :
          /\ fetcher' = [fetcher EXCEPT !.cache = r.cache]
          /\ req' = IF ~Truthy(r.id)
                    THEN Raises([req EXCEPT !.called = @ \cup Labels(r.trace)], YouTubeFetcherError(NoExc))
                    ELSE [req EXCEPT !.pc = "channels.list", !.channel_id = r.id,
                                     !.called = @ \cup Labels(r.trace)]
    /\ UNCHANGED <<config, remote, hist, retryVars, aggVars, poolVars, otherVars>>

\* get_channel_data: the channel details
FetchChannelDetails ==
    /\ req.pc = "channels.list"
    /\ \E o \in ChannelAnswers : \E c \in {WrappedCall(config, o, "channels.list")} :
          req' = IF ~c.ok THEN Raises([req EXCEPT !.called = @ \cup Labels(c.trace)], c.exc)
                 ELSE IF c.value = <<>>
                      THEN Raises([req EXCEPT !.called = @ \cup Labels(c.trace)], YouTubeFetcherError(NoExc))
                 ELSE [req EXCEPT !.pc = "uploads", !.called = @ \cup Labels(c.trace)]
    /\ UNCHANGED <<config, retryVars, aggVars, poolVars, resolveVars, otherVars>>

\* _get_channel_uploads_playlist_id and the test of its result
FetchUploadsPlaylistId ==
    /\ req.pc = "uploads"
    /\ \E o \in ChannelAnswers : \E c \in {WrappedCall(config, o, "channels.list")} :
          req' = IF c.ok /\ c.value # <<>>
                 THEN [req EXCEPT !.pc = "playlist", !.called = @ \cup Labels(c.trace)]
                 ELSE IF c.ok \/ c.exc.type = "HttpError"
                      THEN Raises([req EXCEPT !.called = @ \cup Labels(c.trace)], YouTubeFetcherError(NoExc))
                 ELSE Raises([req EXCEPT !.called = @ \cup Labels(c.trace)], c.exc)
    /\ UNCHANGED <<config, retryVars, aggVars, poolVars, resolveVars, otherVars>>

\* zero videos are an error like a channel that is not found
ChannelDataReturned_ZeroVideosRaise(r) ==
    IF r.video_ids = <<>> THEN Raises(r, YouTubeFetcherError(NoExc))
    ELSE IF r.caller = "get_video_data" THEN [r EXCEPT !.pc = "current_video_comments"]
    ELSE Returns(r, "data", "")

\* what get_channel_data gives back to its caller
ChannelDataReturned(r) ==
    IF r.caller = "get_video_data" THEN [r EXCEPT !.pc = "current_video_comments"]
    ELSE Returns(r, "data", "")

\* the dictionary get_channel_data returns for a channel without videos
EmptyChannelData ==
    [AggStart EXCEPT !.pc = "done",
                     !.result = [kind |-> "return", all_videos_summary |-> <<>>,
                                 most_popular_videos_with_comments |-> <<>>,
                                 least_popular_videos_with_comments |-> <<>>]]

\* _get_video_ids_from_playlist, and the result of a channel without videos
FetchPlaylist ==
    /\ req.pc = "playlist"
    /\ \E pages \in PlaylistPages : \E p \in {PlaylistIds(config, pages, 1, <<>>)} :
       \E r \in {[req EXCEPT !.called = @ \cup {"playlistItems.list"}]} :
          /\ req' = IF p.raised THEN Raises(r, p.exc)
                    ELSE IF p.video_ids = <<>> THEN ChannelDataReturned(r)
                    ELSE [r EXCEPT !.pc = "videos.list", !.video_ids = p.video_ids]
          /\ agg' = IF ~p.raised /\ p.video_ids = <<>> THEN EmptyChannelData ELSE agg
    /\ UNCHANGED <<config, video_details, retryVars, poolVars, resolveVars, otherVars>>

\* _get_video_details of the videos of the playlist
FetchVideoDetails ==
    /\ req.pc = "videos.list"
    /\ \E o \in DetailAnswers(req.video_ids) : \E d \in {GetVideoDetails(config, o)} :
          IF d.raised
          THEN /\ req' = Raises([req EXCEPT !.called = @ \cup Labels(d.trace)], d.exc)
               /\ UNCHANGED aggVars
          ELSE /\ req' = [req EXCEPT !.pc = "aggregate", !.called = @ \cup Labels(d.trace)]
               /\ video_details' = d.details
               /\ agg' = AggStart
    /\ UNCHANGED <<config, retryVars, poolVars, resolveVars, otherVars>>

\* get_channel_data ends as the aggregation ended
AggregationEnds ==
    /\ req.pc = "aggregate"
    /\ agg.pc = "done"
    /\ req' = IF agg.result.kind = "raise" THEN Raises(req, agg.result.exc)
              ELSE ChannelDataReturned(req)
    /\ UNCHANGED <<config, retryVars, aggVars, poolVars, resolveVars, otherVars>>

\* get_video_data: the comments of the video of the link, and the result
FetchCurrentVideoComments ==
    /\ req.pc = "current_video_comments"
    /\ \E s \in CommentScripts(config) : \E c \in {CommentsForVideo(config, s)} :
       \E r \in {[req EXCEPT !.called = IF c.calls > 0 THEN @ \cup {"commentThreads.list"} ELSE @]} :
          req' = IF c.raised THEN Raises(r, c.exc)
                 ELSE Returns([r EXCEPT !.current_video_comments = c.comments], "data", "")
    /\ UNCHANGED <<config, retryVars, aggVars, poolVars, resolveVars, otherVars>>

NextAnalyze ==
    \/ AnalyzeLink
    \/ ConstructFetcher
    \/ GetVideoData
    \/ GetChannelData
    \/ FetchChannelDetails
    \/ FetchUploadsPlaylistId
    \/ FetchPlaylist
    \/ FetchVideoDetails
    \/ SortAndSelect
    \/ FetchMostPopularComments
    \/ MostPopularFetched
    \/ FetchLeastPopularComments
    \/ ReturnChannelData
    \/ AggregationEnds
    \/ FetchCurrentVideoComments

SpecAnalyze == InitAnalyze /\ [][NextAnalyze]_vars

\* C1: analyze_link never raises: whatever the link and the remote do, it
\* ends by returning a value, a payload or one that carries an error.
C1_AnalyzeLinkNeverRaises ==
    (req.pc = "done" /\ req.caller # "YouTubeFetcher") => req.result.kind = "return"

\* C9: in a video request, when the channel aggregate fails after the
\* details of the video were obtained, get_video_data returns a result
\* with the error and those details.
C9_PartialResultIsReturned ==
    (req.pc = "done" /\ req.aggregate_failed /\ Truthy(req.current_video_details.id)) =>
        req.result.kind = "return"

\* the calls of the search endpoint
SearchLabels ==
    {"search.list test", "search.list basic", "search.list quoted", "search.list variant",
     "search.list query"}

\* C11: a request for a watch link with v=X makes no search call, takes the
\* channel it aggregates from the channelId of the record videos.list gave
\* for X, and what it returns has that record of X as current_video_details.
C11_VideoRequestUsesVideoMetadata ==
    (req.caller = "get_video_data" /\ Truthy(req.link.v)) =>
        /\ req.called \cap SearchLabels = {}
        /\ Truthy(req.channel_id) => req.channel_id = req.current_video_details.channelId
        /\ (req.pc = "done" /\ req.result.kind = "return") =>
               /\ req.current_video_details.id = req.link.v
               /\ req.channel_id = req.current_video_details.channelId

C11_Witness ==
    /\ req.pc = "done"
    /\ req.result.kind = "return"
    /\ req.caller = "get_video_data"
    /\ req.link = WatchLink
    /\ req.current_video_details = [id |-> <<"x">>, channelId |-> U1]
    /\ req.channel_id = U1
    /\ req.called = {"videos.list", "channels.list", "playlistItems.list", "commentThreads.list"}
    /\ agg.pc = "done"

\* C12: for a channel that exists and whose uploads playlist gives no video,
\* get_channel_data returns, without an error, a result whose summary and
\* two buckets are empty, and it asks for no video details and no comments.
C12_ZeroVideosIsEmptyResult ==
    (req.video_ids = <<>> /\ agg.pc = "done") =>
        /\ agg.result = [kind |-> "return", all_videos_summary |-> <<>>,
                         most_popular_videos_with_comments |-> <<>>,
                         least_popular_videos_with_comments |-> <<>>]
        /\ agg.log = <<>>
        /\ req.caller = "get_channel_data" =>
               /\ req.pc = "done"
               /\ req.result.kind = "return"
               /\ req.called \cap {"videos.list", "commentThreads.list"} = {}

C12_Witness ==
    /\ req.pc = "done"
    /\ req.caller = "get_channel_data"
    /\ req.link = ChannelLink
    /\ req.video_ids = <<>>
    /\ req.result.kind = "return"
    /\ req.called = {"channels.list", "playlistItems.list"}
    /\ agg = EmptyChannelData

\* C13: a youtube.com link is handled as a video request only when its path
\* starts with /watch; a link whose path starts with /@ is resolved as a
\* channel handle whatever the handle is; a link without host gets the
\* invalid-link error.
C13_ClassifiedByPathPrefix ==
    /\ (req.caller = "get_video_data" /\ Contains(YoutubeCom, Hostname(req.link))) =>
           StartsWith(req.link.path, <<"/">> \o WatchWord)
    /\ (req.pc # "analyze_link" /\ StartsWith(req.link.path, <<"/", "@">>)
          /\ Contains(YoutubeCom, Hostname(req.link)) /\ Truthy(req.api_key)) =>
           req.caller = "get_channel_data"
    /\ (req.pc = "done" /\ ~Truthy(Hostname(req.link))) =>
           req.result = [kind |-> "return", body |-> "error", text |-> "Invalid link", exc |-> NoRaise]

\* C14: without an API key the error comes before anything remote: a
\* request for a YouTube link makes no remote call, builds no client and
\* returns the error value, and the constructor raises before it builds a
\* client handle.
C14_MissingKeyIsReportedFirst ==
    ~Truthy(req.api_key) =>
        /\ req.called = {}
        /\ req.clients = 0
        /\ agg = AggIdle
        /\ (req.pc = "done" /\ req.caller = "YouTubeFetcher") =>
               (req.result.kind = "raise" /\ req.result.exc.type = "ValueError")
        /\ (req.pc = "done" /\ req.caller # "YouTubeFetcher" /\ Truthy(Hostname(req.link))
              /\ (Contains(YoutubeCom, Hostname(req.link)) \/ Contains(YoutuBe, Hostname(req.link)))) =>
               req.result = [kind |-> "return", body |-> "error",
                             text |-> "YouTube API Key is not configured.", exc |-> NoRaise]

C14_Witness ==
    /\ req.pc = "done"
    /\ req.link = WatchLink
    /\ req.api_key = <<>>
    /\ req.caller = "analyze_link"
    /\ req.result.text = "YouTube API Key is not configured."
    /\ req.called = {}
    /\ req.clients = 0

(***************************************************************************)
(* Specification of _get_video_ids_from_playlist, page by page, and of the *)
(* _get_video_details that follows it.  The playlist has the videos 1..n   *)
(* in this order.  The remote answers a request for maxResults items from  *)
(* an offset with the next items, as many as its page size and maxResults  *)
(* allow, and with a next page when items are left.  One execution may     *)
(* fail, with an HttpError or with another exception.                      *)
(***************************************************************************)
PlaylistCaps == 0..MaxVideos \cup {PageCap, PageCap + 1}

PlaylistSizes == 0..MaxVideos \cup (PageCap - 1)..(PageCap + 2)

NoRequestLeft == -1

PlaylistConfigs == {[DefaultConfig EXCEPT !.max_videos = m] : m \in PlaylistCaps}

InitPlaylist ==
    /\ config \in PlaylistConfigs
    /\ \E n \in PlaylistSizes, whole \in BOOLEAN, f \in 0..2, t \in {"HttpError", "Exception"} :
          pl = [pc |-> "start", playlist |-> n, server_page |-> IF whole THEN PageCap ELSE 1,
                fail_at |-> f, fail_type |-> t, failed |-> FALSE,
                max_results |-> config.max_videos, maxResults |-> 0, request |-> NoRequestLeft,
                video_ids |-> <<>>, sizes |-> <<>>, details |-> <<>>]
    /\ sock = [pc |-> "idle"]
    /\ NoRetry
    /\ NoAggregate
    /\ NoComments
    /\ NoResolve
    /\ NoRequest

\* the items of the page the remote serves for the request of p
Batch(p) ==
    [i \in 1..Min(Min(p.server_page, p.maxResults), p.playlist - p.request) |-> p.request + i]

\* the loop body keeps every id of the page
AfterPage_NoTruncation(p, batch_ids) ==
    LET video_ids == p.video_ids \o batch_ids
        next == IF p.request + Len(batch_ids) < p.playlist THEN p.request + Len(batch_ids)
                ELSE NoRequestLeft
    IN IF Len(video_ids) >= p.max_results
       THEN [p EXCEPT !.pc = "returned", !.video_ids = video_ids]
       ELSE [p EXCEPT !.video_ids = video_ids, !.request = next]

\* the loop body after request.execute(): extend, cut at max_results and
\* break, or go on with list_next, which is None after the last page
AfterPage(p, batch_ids) ==
    LET video_ids == p.video_ids \o batch_ids
        next == IF p.request + Len(batch_ids) < p.playlist THEN p.request + Len(batch_ids)
                ELSE NoRequestLeft
    IN IF Len(video_ids) >= p.max_results
       THEN [p EXCEPT !.pc = "returned", !.video_ids = TakeFirst(video_ids, p.max_results)]
       ELSE [p EXCEPT !.video_ids = video_ids, !.request = next]

\* request = playlistItems().list(..., maxResults=min(max_results, 50))
BuildPlaylistRequest ==
    /\ pl.pc = "start"
    /\ pl' = [pl EXCEPT !.pc = "loop", !.maxResults = Min(pl.max_results, PageCap), !.request = 0]
    /\ UNCHANGED <<config, retryVars, aggVars, poolVars, resolveVars, req, sock>>

\* one turn of the while loop whose request.execute() returns a page
ExecutePage ==
    /\ pl.pc = "loop"
    /\ pl.request # NoRequestLeft
    /\ Len(pl.video_ids) < pl.max_results
    /\ Len(pl.sizes) + 1 # pl.fail_at
    /\ pl' = AfterPage([pl EXCEPT !.sizes = Append(pl.sizes, pl.maxResults)], Batch(pl))
    /\ UNCHANGED <<config, retryVars, aggVars, poolVars, resolveVars, req, sock>>

\* one turn of the while loop whose request.execute() raises: an HttpError is
\* logged and the ids so far are returned, anything else leaves the method
PageFails ==
    /\ pl.pc = "loop"
    /\ pl.request # NoRequestLeft
    /\ Len(pl.video_ids) < pl.max_results
    /\ Len(pl.sizes) + 1 = pl.fail_at
    /\ pl' = [pl EXCEPT !.pc = IF pl.fail_type = "HttpError" THEN "returned" ELSE "raised",
                        !.failed = TRUE, !.sizes = Append(pl.sizes, pl.maxResults)]
    /\ UNCHANGED <<config, retryVars, aggVars, poolVars, resolveVars, req, sock>>

\* the condition of the while loop is false
PlaylistLoopEnds ==
    /\ pl.pc = "loop"
    /\ pl.request = NoRequestLeft \/ ~(Len(pl.video_ids) < pl.max_results)
    /\ pl' = [pl EXCEPT !.pc = "returned"]
    /\ UNCHANGED <<config, retryVars, aggVars, poolVars, resolveVars, req, sock>>

\* _get_video_details(video_ids): the records of the ids the remote still
\* has, in the order asked, or none after an HttpError
DetailsOfPlaylist ==
    /\ pl.pc = "returned"
    /\ \E kept \in {"all", "odd", "none"} :
          pl' = [pl EXCEPT !.pc = "ranked",
                           !.details = CASE kept = "all" -> pl.video_ids
                                         [] kept = "odd" -> SelectSeq(pl.video_ids, LAMBDA v : v % 2 = 1)
                                         [] OTHER -> <<>>]
    /\ UNCHANGED <<config, retryVars, aggVars, poolVars, resolveVars, req, sock>>

NextPlaylist ==
    BuildPlaylistRequest \/ ExecutePage \/ PageFails \/ PlaylistLoopEnds \/ DetailsOfPlaylist

SpecPlaylist == InitPlaylist /\ [][NextPlaylist]_vars

\* the number of pages of size k that hold n items
PagesFor(n, k) == (n + k - 1) \div k

\* C21: every page is requested with at most 50 items; when no page fails the
\* ids returned are the first min(max_videos, N) of the N-item playlist, in
\* its order, after no more executions than those ids and the end of the
\* playlist need; the videos to rank are never more than max_videos.
C21_PaginationReturnsFirstMaxVideos ==
    /\ \A i \in 1..Len(pl.sizes) : pl.sizes[i] <= PageCap
    /\ Len(pl.video_ids) <= pl.max_results
    /\ Len(pl.details) <= pl.max_results
    /\ (pl.pc \in {"returned", "ranked"} /\ ~pl.failed) =>
          /\ pl.video_ids = [i \in 1..Min(pl.max_results, pl.playlist) |-> i]
          /\ Len(pl.sizes) = IF pl.max_results = 0 THEN 0
                             ELSE IF pl.playlist = 0 THEN 1
                             ELSE PagesFor(Min(pl.max_results, pl.playlist),
                                           Min(pl.server_page, pl.maxResults))

C21_Witness ==
    /\ pl.pc = "ranked"
    /\ ~pl.failed
    /\ pl.max_results = PageCap + 1
    /\ pl.playlist = PageCap + 2
    /\ pl.sizes = <<PageCap, PageCap>>
    /\ Len(pl.video_ids) = PageCap + 1
    /\ pl.details = pl.video_ids

\* the place of an execution in the order of the strategies of a handle
\* link; the connection test is no strategy
StrategyRank(endpoint) ==
    CASE endpoint = "channels.list forHandle" -> 1
      [] endpoint = "channels.list forUsername" -> 2
      [] endpoint = "search.list basic" -> 3
      [] endpoint = "search.list quoted" -> 4
      [] endpoint = "search.list variant" -> 5
      [] OTHER -> 0

\* C22: the executions of a handle resolution follow the order by handle, by
\* username, keyword search, quoted search, variant search; a strategy is
\* executed only after the one before it was; and the resolution gives no
\* identifier only after all five were executed.
C22_StrategiesInOrderUntilSuccess ==
    (hist.pc = "resolved" /\ hist.last.link = HandleLink) =>
        LET t == hist.last.trace
            ranks == {StrategyRank(t[i].endpoint) : i \in 1..Len(t)} \ {0}
        IN /\ \A i, j \in 1..Len(t) :
                 i < j => StrategyRank(t[i].endpoint) <= StrategyRank(t[j].endpoint)
           /\ \A k \in ranks : \A e \in 1..(k - 1) : e \in ranks
           /\ ~Truthy(hist.last.id) => ranks = 1..5

(***************************************************************************)
(* Specification of the resolutions of handle links whose handle lookup    *)
(* and username lookup give nothing, the keyword search answering with a   *)
(* list of candidates: the same calls on one fetcher as above, with the    *)
(* remote states drawn from every list of at most MaxCandidates titles     *)
(***************************************************************************)
MaxCandidates == 3

SpacedHandle == <<"a", " ", "B">>

SelectHandles == {HandleAB, SpacedHandle}

SelectLinks == {Link(WwwYoutubeCom, <<"/", "@">> \o h, None) : h \in SelectHandles}

CandidateTitles ==
    {<<"z", "z">>, <<"a", " ", "z", "z">>, <<"A", " ", "b", " ", "T", "V">>,
     <<"A", "_", "b", " ", "T", "V">>, <<"b">>}

\* the channel of the candidate at place i of the search result
CandidateId(i) == <<"U", <<"1", "2", "3", "4", "5", "6", "7", "8", "9">>[i]>>

CandidateLists ==
    UNION {{[i \in 1..n |-> [channelId |-> CandidateId(i), title |-> titles[i]]] :
              titles \in [1..n -> CandidateTitles]} : n \in 0..MaxCandidates}

SelectRemotes ==
    [test : {OkOutcome(<<>>)},
     forHandle : {OkOutcome(<<>>), HttpErrorOutcome(400, "")},
     forUsername : {OkOutcome(<<>>)},
     search : {[q \in SelectHandles |-> OkOutcome(items)] : items \in CandidateLists},
     videos : {[video_id \in {<<"x">>} |-> OkOutcome(<<>>)]}]

InitSelect ==
    /\ config \in ResolveConfigs
    /\ remote \in SelectRemotes
    /\ fetcher = [cache |-> <<>>]
    /\ hist = [pc |-> "fresh", prev |-> <<>>, last |-> NoLast]
    /\ NoRetry
    /\ NoAggregate
    /\ NoComments
    /\ NoRequest
    /\ NoOther

NextSelect ==
    \/ \E link \in SelectLinks : ResolveLink(link)
    \/ ClearCache

SpecSelect == InitSelect /\ [][NextSelect]_vars

\* the handle of the link resolved last and the candidates its keyword search got
LastHandle == From(hist.last.link.path, 2)

LastCandidates == remote.search[LastHandle].value

KeywordSearchAnswered ==
    /\ hist.pc = "resolved"
    /\ hist.last.link \in SelectLinks
    /\ "search.list basic" \in Labels(hist.last.trace)
    /\ LastCandidates # <<>>

\* the title contains the handle or the handle contains the title, letter
\* case apart
SubstringMatch(title, handle) ==
    Contains(Lower(handle), Lower(title)) \/ Contains(Lower(title), Lower(handle))

\* the title contains a word of a handle of more than one word
WordOverlap(title, handle) ==
    /\ Len(Words(Lower(handle))) > 1
    /\ \E w \in 1..Len(Words(Lower(handle))) : Contains(Words(Lower(handle))[w], Lower(title))

\* C23 as stated: when the keyword search returns candidates, the identifier
\* is the one of a candidate whose title contains the handle or is contained
\* in it whenever there is one, and the first candidate's only when there is
\* none.
C23_SubstringCandidatePreferred_Original ==
    KeywordSearchAnswered =>
        LET matching == {i \in 1..Len(LastCandidates) :
                            SubstringMatch(LastCandidates[i].title, LastHandle)}
        IN IF matching # {} THEN hist.last.id \in {LastCandidates[i].channelId : i \in matching}
           ELSE hist.last.id = LastCandidates[1].channelId

\* C23: when the keyword search returns candidates, the identifier is the
\* one of the first candidate whose title contains the handle, is contained
\* in it, or contains a word of a handle of more than one word; it is the
\* first candidate's only when no candidate matches in this way.
C23_FirstMatchingCandidatePreferred ==
    KeywordSearchAnswered =>
        LET matching == {i \in 1..Len(LastCandidates) :
                            \/ SubstringMatch(LastCandidates[i].title, LastHandle)
                            \/ WordOverlap(LastCandidates[i].title, LastHandle)}
        IN IF matching # {}
           THEN hist.last.id = LastCandidates[CHOOSE i \in matching :
                                                 \A j \in matching : i <= j].channelId
           ELSE hist.last.id = LastCandidates[1].channelId

C23_Witness ==
    /\ KeywordSearchAnswered
    /\ LastHandle = SpacedHandle
    /\ Len(LastCandidates) = MaxCandidates
    /\ LastCandidates[1].title = <<"z", "z">>
    /\ LastCandidates[2].title = <<"a", " ", "z", "z">>
    /\ LastCandidates[3].title = <<"A", " ", "b", " ", "T", "V">>
    /\ hist.last.id = CandidateId(2)

(***************************************************************************)
(* Specification of the client constructions of two fetchers of one        *)
(* process, each in its own thread: the construction in __init__ and the   *)
(* rebuilds of _retry_api_call.  socket.setdefaulttimeout writes a value   *)
(* of the process, which build(...) reads when it makes the client.        *)
(***************************************************************************)
MaxBuilds == 2

\* timeout: int = 15
DefaultTimeout == 15

FetcherTimeouts == {DefaultTimeout, 2 * DefaultTimeout}

\* socket.setdefaulttimeout(None)
NoDefaultTimeout == -1

Fetchers == {1, 2}

InitBuild ==
    /\ config = DefaultConfig
    /\ \E timeouts \in [Fetchers -> FetcherTimeouts] :
          sock = [pc |-> "run", default |-> NoDefaultTimeout,
                  fetchers |-> [i \in Fetchers |->
                                   [pc |-> "idle", timeout |-> timeouts[i], builds |-> 0,
                                    seen |-> <<>>, raised |-> 0]]]
    /\ pl = [pc |-> "idle"]
    /\ NoRetry
    /\ NoAggregate
    /\ NoComments
    /\ NoResolve
    /\ NoRequest

\* socket.setdefaulttimeout(self.timeout), by __init__ or by a rebuild
SetDefaultTimeout(i) ==
    /\ sock.fetchers[i].pc = "idle"
    /\ sock.fetchers[i].builds + sock.fetchers[i].raised < MaxBuilds
    /\ sock' = [sock EXCEPT !.default = sock.fetchers[i].timeout, !.fetchers[i].pc = "set"]
    /\ UNCHANGED <<config, retryVars, aggVars, poolVars, resolveVars, req, pl>>

\* client = build('youtube', 'v3', developerKey=self.api_key), made under
\* the default timeout of the process at this moment
BuildClient(i) ==
    /\ sock.fetchers[i].pc = "set"
    /\ sock' = [sock EXCEPT !.fetchers[i].pc = "built",
                            !.fetchers[i].seen = Append(@, sock.default)]
    /\ UNCHANGED <<config, retryVars, aggVars, poolVars, resolveVars, req, pl>>

\* build(...) raises
BuildRaises(i) ==
    /\ sock.fetchers[i].pc = "set"
    /\ sock' = [sock EXCEPT !.fetchers[i].pc = "raising"]
    /\ UNCHANGED <<config, retryVars, aggVars, poolVars, resolveVars, req, pl>>

\* finally: socket.setdefaulttimeout(None), then the client is returned or
\* the exception goes on
ResetDefaultTimeout(i) ==
    /\ sock.fetchers[i].pc \in {"built", "raising"}
    /\ sock' = [sock EXCEPT !.default = NoDefaultTimeout,
                            !.fetchers[i].pc = "idle",
                            !.fetchers[i].builds = @ + (IF sock.fetchers[i].pc = "built" THEN 1 ELSE 0),
                            !.fetchers[i].raised = @ + (IF sock.fetchers[i].pc = "raising" THEN 1 ELSE 0)]
    /\ UNCHANGED <<config, retryVars, aggVars, poolVars, resolveVars, req, pl>>

NextBuild ==
    \E i \in Fetchers :
        SetDefaultTimeout(i) \/ BuildClient(i) \/ BuildRaises(i) \/ ResetDefaultTimeout(i)

SpecBuild == InitBuild /\ [][NextBuild]_vars

\* C24: two fetchers share no state: every client of a fetcher is made
\* under the timeout this fetcher set, whatever the other fetcher does in
\* between.
C24_BuildsShareNoState ==
    sock.pc = "run" =>
        \A i \in Fetchers : \A k \in 1..Len(sock.fetchers[i].seen) :
            sock.fetchers[i].seen[k] = sock.fetchers[i].timeout

\* a step of a fetcher as its cache sees it
CacheStep ==
    LET cache == fetcher.cache
        after == fetcher'.cache
    IN /\ \A k \in DOMAIN after : Truthy(after[k])
       /\ (hist'.pc = "resolved" /\ ~Truthy(hist'.last.id)) => after = cache
       /\ (hist'.pc = "resolved" /\ hist'.last.again /\ ~Truthy(hist'.last.before)) =>
             hist'.last.trace = ExtractChannelId(config, <<>>, remote, hist'.last.link).trace
       /\ \A k \in DOMAIN cache \cap DOMAIN after : after[k] = cache[k]
       /\ ~(DOMAIN cache \subseteq DOMAIN after) => (hist'.pc = "fresh" /\ after = <<>>)

\* C25: the cache holds identifiers that are not empty only; a resolution
\* that gives no identifier leaves the cache as it was, and the next one of
\* the same link makes the remote calls of a resolution on an empty cache
\* again; no entry is given another value;
\* entries go away by clear_cache only.
C25_CacheHoldsOnlyResolvedIds == [][CacheStep]_vars

C25_Witness ==
    /\ hist.pc = "resolved"
    /\ hist.last.again
    /\ ~Truthy(hist.last.id)
    /\ ~Truthy(hist.last.before)
    /\ hist.last.trace # <<>>
    /\ CacheKey(hist.last.link) \notin DOMAIN fetcher.cache
    /\ CacheKey(ChannelLink) \in DOMAIN fetcher.cache
    /\ CacheKey(WatchLink) \in DOMAIN fetcher.cache

\* the workers whose call is in flight before and after a step
StaysInFlight == {j \in DOMAIN pool.tasks : pool.tasks[j].in_flight /\ pool'.tasks[j].in_flight}

\* C26: in the parallel comment fetch no step taken while the call of a
\* worker is in flight writes the client handle, the configuration or the
\* cache of the fetcher.
C26_WorkersOnlyRead ==
    [][StaysInFlight # {} =>
          /\ pool'.youtube = pool.youtube
          /\ config' = config
          /\ fetcher' = fetcher]_vars

====
